---- MODULE Spec2Model ----
(***************************************************************************)
(* Model of facialposecreator's FacialPoseAnimator                         *)
(* (src/src/facialposecreator/facial_pose_animator.py): control discovery, *)
(* pose capture and apply, the tracked-operation bracket around scene      *)
(* mutations, the host undo queue, and JSON export/import of poses.        *)
(*                                                                         *)
(* Numbers are fixed point, in thousandths: 0.01 is 10, 1.0 is 1000.       *)
(* Text that the code inspects character by character (pose names) is a    *)
(* sequence of one-character strings.                                      *)
(***************************************************************************)
EXTENDS Integers, Sequences, FiniteSets, TLC

VARIABLES
    sceneNodes,      \* host: names of the nodes in the scene
    selection,       \* host: the current selection, pm.selected()
    objectSet,       \* host: members of the named object set, or NoSet
    driverControls,  \* host: nodes wired to the driver node's metadata, or NoDriver
    attrValue,       \* host: value of every attribute (plug) in the scene
    undoState,       \* host: pm.undoInfo(query=True, state=True)
    undoQueue,       \* host: the undo queue, oldest first; an entry maps plugs to old values
    tolerance,       \* FacialPoseAnimator.tolerance
    saved_poses,     \* FacialPoseAnimator.saved_poses: pose name -> FacialPoseData
    files,           \* file system: path -> parsed JSON document
    imported,        \* saved_poses of a second, new animator
    captured,        \* history: pose name -> what the scene was when it was captured
    last,            \* the last call: operation, arguments, outcome
    again,           \* history: the last call repeated the successful call before it
    nCalls,          \* number of calls made so far
    created_nodes,        \* FacialPoseAnimator.created_nodes (a set)
    created_connections,  \* FacialPoseAnimator.created_connections (a list)
    created_attributes,   \* FacialPoseAnimator.created_attributes (a list)
    enable_undo_tracking, \* FacialPoseAnimator.enable_undo_tracking
    sceneItems,      \* host: the nodes, attributes and connections the operations created
    itemQueue,       \* host: the undo queue's entries that create or delete scene items
    chunk,           \* host: the items created by the commands of the open undo chunk
    bracket,         \* the tracked operation that is running and where its body stands
    createdLog,      \* history: the items the running or last operation created, in order
    cleanupLog,      \* history: the items the last rollback removed, in order
    openChunks,      \* host: the undo chunks that are open
    last_key_time,   \* FacialPoseAnimator.last_key_time
    keyframes        \* host: the keys of the animation curves, <<plug, time, value>>

vars ==
    <<sceneNodes, selection, objectSet, driverControls, attrValue, undoState,
      undoQueue, tolerance, saved_poses, files, imported, captured, last, again, nCalls,
      created_nodes, created_connections, created_attributes, enable_undo_tracking,
      sceneItems, itemQueue, chunk, bracket, createdLog, cleanupLog, openChunks,
      last_key_time, keyframes>>

hostVars ==
    <<sceneNodes, selection, objectSet, driverControls, attrValue, undoState, undoQueue>>

ledgerVars ==
    <<created_nodes, created_connections, created_attributes, enable_undo_tracking,
      sceneItems, itemQueue, chunk, bracket, createdLog, cleanupLog, openChunks,
      last_key_time, keyframes>>

(***************************************************************************)
(* Bounds of the model.                                                    *)
(***************************************************************************)
MaxCalls == 4
MaxNameLen == 3
MaxUndoQueue == 2
MaxPriorLines == 2

(***************************************************************************)
(* Text                                                                    *)
(***************************************************************************)
Letters == {"a", "Z"}
\* the ASCII letters that occur in names and in the sanitizer's own prefixes
AsciiLetters == Letters \cup {"c", "e", "m", "o", "p", "s", "t", "u"}
Digits == {"7"}
\* "e'" stands for a non-ASCII letter: str.isalpha() holds, [a-zA-Z0-9_] does not match
NonAsciiLetters == {"e'"}
Alphabet == Letters \cup Digits \cup NonAsciiLetters \cup {"_", " ", "!"}

\* the character class [a-zA-Z0-9_]
IsWordChar(c) == c \in AsciiLetters \cup Digits \cup {"_"}

\* str.isalpha() on one character
IsAlpha(c) == c \in AsciiLetters \cup NonAsciiLetters

\* re.sub(r'[^a-zA-Z0-9_]', '_', s)
ReplaceNonWord(s) == [i \in 1..Len(s) |-> IF IsWordChar(s[i]) THEN s[i] ELSE "_"]

\* re.sub(r'_+', '_', s)
RECURSIVE CollapseUnderscores(_)
CollapseUnderscores(s) ==
    IF Len(s) <= 1 THEN s
    ELSE IF s[1] = "_" /\ s[2] = "_" THEN CollapseUnderscores(Tail(s))
    ELSE <<s[1]>> \o CollapseUnderscores(Tail(s))

\* s.lstrip('_')
RECURSIVE LStripUnderscores(_)
LStripUnderscores(s) ==
    IF s # <<>> /\ s[1] = "_" THEN LStripUnderscores(Tail(s)) ELSE s

\* s.rstrip('_')
RECURSIVE RStripUnderscores(_)
RStripUnderscores(s) ==
    IF s # <<>> /\ s[Len(s)] = "_" THEN RStripUnderscores(SubSeq(s, 1, Len(s) - 1)) ELSE s

\* s.strip('_')
StripUnderscores(s) == RStripUnderscores(LStripUnderscores(s))

PosePrefix == <<"p", "o", "s", "e", "_">>
CustomPose == <<"c", "u", "s", "t", "o", "m", "_", "p", "o", "s", "e">>

\* a variant of _sanitize_pose_name_for_attr: the digit prefix is left out
SanitizeNoPrefix(pose_name) ==
    LET sanitized == StripUnderscores(CollapseUnderscores(ReplaceNonWord(pose_name)))
    IN  IF sanitized # <<>> THEN sanitized ELSE CustomPose

\* FacialPoseAnimator._sanitize_pose_name_for_attr
SanitizePoseNameForAttr(pose_name) ==
    LET replaced == ReplaceNonWord(pose_name)
        collapsed == CollapseUnderscores(replaced)
        stripped == StripUnderscores(collapsed)
        sanitized ==
            IF stripped # <<>> /\ ~IsAlpha(stripped[1]) /\ stripped[1] # "_"
            THEN PosePrefix \o stripped
            ELSE stripped
    IN  IF sanitized # <<>> THEN sanitized ELSE CustomPose

RECURSIVE SeqsUpTo(_, _)
SeqsUpTo(S, n) ==
    IF n = 0 THEN {<<>>}
    ELSE LET shorter == SeqsUpTo(S, n - 1)
         IN  shorter \cup {Append(s, c) : s \in shorter, c \in S}

\* the pose names the sanitizer is tried on
NameInputs == SeqsUpTo(Alphabet, MaxNameLen)


(***************************************************************************)
(* The host scene                                                          *)
(***************************************************************************)
Transforms == {"face_CTRL", "mouth_CTRL", "GUI_CTRL"}
NonTransforms == {"lambert1"}
AllNodes == Transforms \cup NonTransforms

\* a control that pose files name and the scene does not hold
GhostControl == "ghost_CTRL"

\* isinstance(obj, pm.nt.Transform)
IsTransform(n) == n \in Transforms

\* control.listAttr(k=True, v=True), also the attributes attributeQuery finds
AttrsOf(n) ==
    CASE n = "face_CTRL" -> {"translateX", "translateY", "scaleX", "visibility"}
      [] n = "mouth_CTRL" -> {"translateX", "translateY", "smile"}
      [] n = "GUI_CTRL" -> {"translateX"}
      [] OTHER -> {}

AttrNames == {"translateX", "translateY", "scaleX", "visibility", "smile"}

\* a plug is <<node, attribute>>
AllPlugs == {p \in Transforms \X AttrNames : p[2] \in AttrsOf(p[1])}

\* attribute.isLocked(), attribute.isConnected(), attribute.isHidden()
Locked == {<<"mouth_CTRL", "translateX">>}
Connected == {<<"mouth_CTRL", "smile">>}
Hidden == {<<"mouth_CTRL", "translateY">>}

\* attribute.get(type=True)
AttrType(p) == IF p[2] = "visibility" THEN "bool" ELSE "double"

\* the scene as the rig ships: the face control at rest, scale and visibility 1,
\* the mouth's driven plugs and the GUI widget at 0.5
RestValue(p) ==
    CASE p[2] \in {"scaleX", "visibility"} -> 1000
      [] p[1] \in {"mouth_CTRL", "GUI_CTRL"} -> 500
      [] OTHER -> 0

\* pm.objExists(name) for a control name
ObjExists(nodes, n) == n \in nodes

\* the plugs that exist in the scene
ScenePlugs(nodes) == {p \in AllPlugs : p[1] \in nodes}

Abs(x) == IF x < 0 THEN -x ELSE x

(***************************************************************************)
(* FacialPoseAnimator: settings of __init__                                *)
(***************************************************************************)
DefaultTolerance == 10
excluded_nodes == {"GUI", "pup"}
excluded_attributes == {"scaleX", "scaleY", "scaleZ"}
facial_driver_node == "FacialPoseValue"
default_selection_mode == "pattern"
default_object_set == "None"

\* `excluded in node_name`, for the node names of the model
NameContains(node_name, excluded) == <<node_name, excluded>> \in {<<"GUI_CTRL", "GUI">>}

\* FacialPoseAnimator._is_valid_control
IsValidControl(n) == ~\E excluded \in excluded_nodes : NameContains(n, excluded)

\* a variant of _is_valid_attribute: the denylist is not consulted
IsValidAttributeNoDenylist(p) ==
    ~(p \in Locked \/ p \in Connected \/ p \in Hidden \/ AttrType(p) # "double")

\* FacialPoseAnimator._is_valid_attribute
IsValidAttribute(p) ==
    IF p \in Locked \/ p \in Connected \/ p \in Hidden \/ AttrType(p) # "double"
    THEN FALSE
    ELSE p[2] \notin excluded_attributes

(***************************************************************************)
(* Control discovery                                                       *)
(***************************************************************************)
\* no set of that name, no driver node: a value no set of nodes equals
NoSet == {"<no set>"}
NoDriver == {"<no driver>"}
SetName == "FacialControls_Set"
Modes == {"pattern", "selection", "object_set", "metadata"}

Found(controls) == [raised |-> "None", controls |-> controls]
Raised(error) == [raised |-> error, controls |-> {}]

\* FacialPoseAnimator._get_controls_from_selection
GetControlsFromSelection(sel) ==
    IF sel = {} THEN Raised("ControlSelectionError")
    ELSE LET controls == {obj \in sel : IsTransform(obj)}
         IN  IF controls = {} THEN Raised("ControlSelectionError") ELSE Found(controls)

\* pm.ls("::*_CTRL", type='transform')
MatchesPattern(n) == n \in {"face_CTRL", "mouth_CTRL", "GUI_CTRL"}

\* FacialPoseAnimator._get_controls_from_pattern
GetControlsFromPattern(nodes) ==
    LET controls == {n \in nodes : IsTransform(n) /\ MatchesPattern(n)}
    IN  IF controls = {} THEN Raised("ControlSelectionError") ELSE Found(controls)

\* FacialPoseAnimator._get_controls_from_object_set
GetControlsFromObjectSet(members, object_set_name) ==
    LET set_name == IF object_set_name # "None" THEN object_set_name ELSE default_object_set
    IN  IF set_name = "None" THEN Raised("ObjectSetError")
        ELSE IF ~(set_name = SetName /\ members # NoSet) THEN Raised("ObjectSetError")
        ELSE IF members = {} THEN Raised("ObjectSetError")
        ELSE LET controls == {obj \in members : IsTransform(obj)}
             IN  IF controls = {} THEN Raised("ObjectSetError") ELSE Found(controls)

\* FacialPoseAnimator._get_controls_from_metadata with _get_connected_facial_controls
GetControlsFromMetadata(wired, driver_node_name) ==
    LET node_name == IF driver_node_name # "None" THEN driver_node_name ELSE facial_driver_node
    IN  IF ~(node_name = facial_driver_node /\ wired # NoDriver) THEN Raised("DriverNodeError")
        ELSE LET controls == {n \in wired : IsTransform(n)}
             IN  IF controls = {} THEN Raised("DriverNodeError") ELSE Found(controls)

\* the strategy get_facial_controls selects for a mode
PrimaryStrategy(mode, object_set_name, nodes, sel, members, wired) ==
    CASE mode = "selection" -> GetControlsFromSelection(sel)
      [] mode = "object_set" -> GetControlsFromObjectSet(members, object_set_name)
      [] mode = "metadata" -> GetControlsFromMetadata(wired, object_set_name)
      [] OTHER -> GetControlsFromPattern(nodes)

\* the mode get_facial_controls works in: the legacy flag, then the default
EffectiveMode(mode, use_selection) ==
    IF use_selection /\ mode = "None" THEN "selection"
    ELSE IF mode = "None" THEN default_selection_mode
    ELSE mode

\* a variant of get_facial_controls: a failed strategy's error is raised as it is, no fallback
GetFacialControlsNoFallback(mode, object_set_name, use_selection, nodes, sel, members, wired) ==
    LET m == EffectiveMode(mode, use_selection)
        primary == PrimaryStrategy(m, object_set_name, nodes, sel, members, wired)
    IN  IF primary.raised # "None" THEN primary
        ELSE LET valid_controls == {ctrl \in primary.controls : IsValidControl(ctrl)}
             IN  IF valid_controls = {} THEN Raised("ControlSelectionError")
                 ELSE Found(valid_controls)

\* a variant of get_facial_controls: the pattern is tried after a failure in metadata mode too
GetFacialControlsFallbackAll(mode, object_set_name, use_selection, nodes, sel, members, wired) ==
    LET m == EffectiveMode(mode, use_selection)
        primary == PrimaryStrategy(m, object_set_name, nodes, sel, members, wired)
        all_controls ==
            IF primary.raised = "None" THEN primary
            ELSE IF m # "pattern"
                 THEN LET fallback == GetControlsFromPattern(nodes)
                      IN  IF fallback.raised = "None" THEN fallback
                          ELSE Raised("ControlSelectionError")
                 ELSE primary
    IN  IF all_controls.raised # "None" THEN all_controls
        ELSE LET valid_controls == {ctrl \in all_controls.controls : IsValidControl(ctrl)}
             IN  IF valid_controls = {} THEN Raised("ControlSelectionError")
                 ELSE Found(valid_controls)

\* FacialPoseAnimator.get_facial_controls
GetFacialControls(mode, object_set_name, use_selection, nodes, sel, members, wired) ==
    LET m == EffectiveMode(mode, use_selection)
        primary == PrimaryStrategy(m, object_set_name, nodes, sel, members, wired)
        all_controls ==
            IF primary.raised = "None" THEN primary
            ELSE IF m \notin {"pattern", "metadata"}
                 THEN LET fallback == GetControlsFromPattern(nodes)
                      IN  IF fallback.raised = "None" THEN fallback
                          ELSE Raised("ControlSelectionError")
                 ELSE primary
    IN  IF all_controls.raised # "None" THEN all_controls
        ELSE LET valid_controls == {ctrl \in all_controls.controls : IsValidControl(ctrl)}
             IN  IF valid_controls = {} THEN Raised("ControlSelectionError")
                 ELSE Found(valid_controls)

(***************************************************************************)
(* Pose records and their JSON form                                        *)
(***************************************************************************)
Fields == {"name", "attribute_name", "controls", "description", "timestamp", "maya_version"}
RequiredFields == {"name", "attribute_name", "controls"}

\* datetime.now().isoformat() and pm.about(version=True)
Now == "2025-09-30T00:00:00"
MayaVersion == "2024"

\* the dataclass FacialPoseData
FacialPoseData(name, attribute_name, controls, description, timestamp, maya_version) ==
    [name |-> name, attribute_name |-> attribute_name, controls |-> controls,
     description |-> description, timestamp |-> timestamp, maya_version |-> maya_version]

\* FacialPoseData.is_valid
IsValid(pose) ==
    pose.name # <<>> /\ pose.attribute_name # <<>> /\ DOMAIN pose.controls # {}

\* a JSON object is the set of its <<key, value>> members
DictKeys(d) == {kv[1] : kv \in d}
DictGet(d, k) == (CHOOSE kv \in d : kv[1] = k)[2]
DictGetOr(d, k, default) == IF k \in DictKeys(d) THEN DictGet(d, k) ELSE default

\* FacialPoseData.to_dict: asdict(self), then json.dump
ToDict(pose) == {<<k, pose[k]>> : k \in Fields}

\* FacialPoseData.from_dict: cls(**data); an unknown or a missing required key is a TypeError
FromDict(d) ==
    IF ~(DictKeys(d) \subseteq Fields) \/ ~(RequiredFields \subseteq DictKeys(d))
    THEN [raised |-> "TypeError"]
    ELSE [raised |-> "None",
          pose |-> FacialPoseData(DictGet(d, "name"), DictGet(d, "attribute_name"),
                                  DictGet(d, "controls"), DictGetOr(d, "description", ""),
                                  DictGetOr(d, "timestamp", ""), DictGetOr(d, "maya_version", ""))]

MapSet(f, k, v) == [x \in DOMAIN f \cup {k} |-> IF x = k THEN v ELSE f[x]]
MapDel(f, K) == [x \in DOMAIN f \ K |-> f[x]]
NoPoses == <<>>

(***************************************************************************)
(* Capture                                                                 *)
(***************************************************************************)
\* a variant of the tolerance test: strictly above
CapturedAttrsStrict(c, values, tol) ==
    {a \in AttrsOf(c) : IsValidAttribute(<<c, a>>) /\ Abs(values[<<c, a>>]) > tol}

\* save_pose_from_selection, the inner loop: the attributes of one control that are stored
CapturedAttrs(c, values, tol) ==
    {a \in AttrsOf(c) : IsValidAttribute(<<c, a>>) /\ Abs(values[<<c, a>>]) >= tol}

\* save_pose_from_selection, the outer loop: controls_data
ControlsData(valid_controls, values, tol) ==
    [c \in {ctrl \in valid_controls : CapturedAttrs(ctrl, values, tol) # {}} |->
        [a \in CapturedAttrs(c, values, tol) |-> values[<<c, a>>]]]

\* a variant of save_pose_from_selection: a capture that finds no value is stored
SavePoseOutcomeStoresEmpty(pose_name, description, use_current_selection, nodes, sel, members, wired, values, tol) ==
    LET found ==
            IF use_current_selection THEN GetControlsFromSelection(sel)
            ELSE GetFacialControls("None", "None", FALSE, nodes, sel, members, wired)
        valid_controls == {ctrl \in found.controls : IsValidControl(ctrl)}
    IN  IF found.raised = "ControlSelectionError" THEN [raised |-> "ControlSelectionError"]
        ELSE IF found.raised # "None" THEN [raised |-> "PoseDataError"]
        ELSE IF valid_controls = {} THEN [raised |-> "PoseDataError"]
        ELSE [raised |-> "None",
              pose |-> FacialPoseData(pose_name, SanitizePoseNameForAttr(pose_name),
                                      ControlsData(valid_controls, values, tol),
                                      description, Now, MayaVersion)]

\* save_pose_from_selection up to the record it stores: [raised, pose]
SavePoseOutcome(pose_name, description, use_current_selection, nodes, sel, members, wired, values, tol) ==
    LET found ==
            IF use_current_selection THEN GetControlsFromSelection(sel)
            ELSE GetFacialControls("None", "None", FALSE, nodes, sel, members, wired)
        valid_controls == {ctrl \in found.controls : IsValidControl(ctrl)}
        controls_data == ControlsData(valid_controls, values, tol)
    IN  IF found.raised = "ControlSelectionError" THEN [raised |-> "ControlSelectionError"]
        ELSE IF found.raised # "None" THEN [raised |-> "PoseDataError"]
        ELSE IF valid_controls = {} THEN [raised |-> "PoseDataError"]
        ELSE IF DOMAIN controls_data = {} THEN [raised |-> "PoseDataError"]
        ELSE [raised |-> "None",
              pose |-> FacialPoseData(pose_name, SanitizePoseNameForAttr(pose_name),
                                      controls_data, description, Now, MayaVersion)]

\* re.sub(r'\s+', '_', s) of _sanitize_pose_name_for_filename; no character of the
\* model's alphabet is in [<>:"/\|?*]
ReplaceWhitespace(s) == [i \in 1..Len(s) |-> IF s[i] = " " THEN "_" ELSE s[i]]

\* FacialPoseAnimator._sanitize_pose_name_for_filename
SanitizePoseNameForFilename(pose_name) ==
    LET sanitized == StripUnderscores(CollapseUnderscores(ReplaceWhitespace(pose_name)))
    IN  IF sanitized # <<>> THEN sanitized ELSE <<"p", "o", "s", "e">>

\* FacialPoseAnimator._get_pose_file_path: a path is a sequence of strings
PoseFilePath(pose_name) ==
    <<"facial_poses/">> \o SanitizePoseNameForFilename(pose_name) \o <<".json">>

\* _save_single_pose_to_file: the document written
SinglePoseDocument(pose) ==
    [version |-> "1.0", export_type |-> "single_pose", pose |-> ToDict(pose)]

\* export_poses_to_file: the document written
PosesDocument(poses) ==
    [version |-> "1.0", poses |-> [n \in DOMAIN poses |-> ToDict(poses[n])]]

(***************************************************************************)
(* Apply                                                                   *)
(***************************************************************************)
\* the (control, attribute) items of a record
PoseItems(pose) ==
    UNION {{<<c, a>> : a \in DOMAIN pose.controls[c]} : c \in DOMAIN pose.controls}

TargetValue(pose, p) == pose.controls[p[1]][p[2]]

\* apply_saved_pose: the items that pass the existence, lock and connection checks
SettableItems(pose, nodes) ==
    {p \in PoseItems(pose) :
        /\ ObjExists(nodes, p[1])
        /\ p[2] \in AttrsOf(p[1])
        /\ ~(p \in Locked \/ p \in Connected)}

\* a variant of the blend: the blend factor is not consulted
NewValueFull(current_value, target_value, blend_factor) ==
    target_value

\* a variant of the blend: the target is added to the current value
NewValueAdditive(current_value, target_value, blend_factor) ==
    current_value + (target_value * blend_factor) \div 1000

\* apply_saved_pose: new_value for a blend factor above 0
NewValue(current_value, target_value, blend_factor) ==
    IF blend_factor >= 1000 THEN target_value
    ELSE current_value + ((target_value - current_value) * blend_factor) \div 1000

\* apply_saved_pose: the items written (applied_count is their number)
WrittenItems(pose, nodes, blend_factor) ==
    IF blend_factor <= 0 THEN {} ELSE SettableItems(pose, nodes)

\* apply_saved_pose: the scene values after the loop
AppliedValues(pose, nodes, values, blend_factor) ==
    [p \in DOMAIN values |->
        IF p \in WrittenItems(pose, nodes, blend_factor)
        THEN NewValue(values[p], TargetValue(pose, p), blend_factor)
        ELSE values[p]]

(***************************************************************************)
(* The host undo queue and the tracked-operation bracket                   *)
(***************************************************************************)
EmptyChunk == <<>>

Push(queue, entry) ==
    IF Len(queue) >= MaxUndoQueue THEN Append(Tail(queue), entry) ELSE Append(queue, entry)

\* pm.undoInfo(closeChunk=True): the chunk's commands become one queue entry. Whether
\* the host queues a chunk that holds no command is the host's choice (emptyQueued).
CloseChunk(queue, entry, enabled, emptyQueued) ==
    IF ~enabled THEN queue
    ELSE IF DOMAIN entry = {} /\ ~emptyQueued THEN queue
    ELSE Push(queue, entry)

\* the old values a chunk records for the plugs it wrote
ChunkEntry(values, written) == [p \in written |-> values[p]]

\* pm.undo(): the newest queue entry is reverted and leaves the queue
UndoValues(queue, values) ==
    IF queue = <<>> THEN values
    ELSE [p \in DOMAIN values |->
            IF p \in DOMAIN queue[Len(queue)] THEN queue[Len(queue)][p] ELSE values[p]]

UndoQueue(queue) == IF queue = <<>> THEN queue ELSE SubSeq(queue, 1, Len(queue) - 1)

\* undo_chunk_context, the except branch, for a body that raised before it changed the
\* scene: closeChunk, _cleanup_created_items (nothing tracked), then pm.undo() when the
\* host's undo is on
RollbackValues(queue, values, enabled, emptyQueued) ==
    IF enabled THEN UndoValues(CloseChunk(queue, EmptyChunk, enabled, emptyQueued), values)
    ELSE values

RollbackQueue(queue, enabled, emptyQueued) ==
    IF enabled THEN UndoQueue(CloseChunk(queue, EmptyChunk, enabled, emptyQueued))
    ELSE queue

\* no tracked operation is running
Idle == [op |-> "none", pc |-> "idle", error |-> "None", curve |-> 0]

\* a variant of clear_undo_tracking: the containers keep what they hold
ClearUndoTrackingKeeps ==
    UNCHANGED <<created_nodes, created_connections, created_attributes>>

\* FacialPoseAnimator.clear_undo_tracking
ClearUndoTracking ==
    /\ created_nodes' = {}
    /\ created_connections' = <<>>
    /\ created_attributes' = <<>>

\* undo_chunk_context around a body that creates no scene item: the ledger is cleared on
\* entry and on exit
BracketOfSceneWrites ==
    /\ ClearUndoTracking
    /\ UNCHANGED <<enable_undo_tracking, sceneItems, itemQueue, chunk, bracket,
                   createdLog, cleanupLog, openChunks>>

(***************************************************************************)
(* Calls                                                                   *)
(***************************************************************************)
Call(op, name, arg, raised, out) ==
    [op |-> op, name |-> name, arg |-> arg, raised |-> raised, out |-> out]

\* the user edits one attribute in the host (one undoable command)
HostSetAttr(p, v) ==
    /\ nCalls < MaxCalls
    /\ again' = FALSE
    /\ p \in ScenePlugs(sceneNodes)
    /\ ~(p \in Locked \/ p \in Connected)
    /\ attrValue' = [attrValue EXCEPT ![p] = v]
    /\ undoQueue' = CloseChunk(undoQueue, ChunkEntry(attrValue, {p}), undoState, TRUE)
    /\ last' = Call("setAttr", <<>>, p, "None", v)
    /\ nCalls' = nCalls + 1
    /\ UNCHANGED ledgerVars
    /\ UNCHANGED <<sceneNodes, selection, objectSet, driverControls, undoState,
                   tolerance, saved_poses, files, imported, captured>>

\* the settings form writes animator.tolerance (facial_pose_creator.py)
SetTolerance(t) ==
    /\ nCalls < MaxCalls
    /\ again' = FALSE
    /\ tolerance' = t
    /\ last' = Call("set_tolerance", <<>>, t, "None", t)
    /\ nCalls' = nCalls + 1
    /\ UNCHANGED ledgerVars
    /\ UNCHANGED <<hostVars, saved_poses, files, imported, captured>>

\* FacialPoseAnimator.save_pose_from_selection
SavePoseFromSelection(pose_name, description, use_current_selection, auto_save_to_file) ==
    LET outcome == SavePoseOutcome(pose_name, description, use_current_selection, sceneNodes,
                                   selection, objectSet, driverControls, attrValue, tolerance)
    IN  /\ nCalls < MaxCalls
        /\ again' = FALSE
        /\ IF outcome.raised = "None"
           THEN /\ saved_poses' = MapSet(saved_poses, pose_name, outcome.pose)
                /\ files' = IF auto_save_to_file
                            THEN MapSet(files, PoseFilePath(pose_name), SinglePoseDocument(outcome.pose))
                            ELSE files
                /\ captured' = MapSet(captured, pose_name,
                                      [selection |-> selection, values |-> attrValue,
                                       tolerance |-> tolerance,
                                       use_current_selection |-> use_current_selection])
           ELSE UNCHANGED <<saved_poses, files, captured>>
        /\ last' = Call("save_pose_from_selection", pose_name, use_current_selection,
                        outcome.raised, auto_save_to_file)
        /\ nCalls' = nCalls + 1
        /\ UNCHANGED ledgerVars
        /\ UNCHANGED <<hostVars, tolerance, imported>>

\* FacialPoseAnimator.apply_saved_pose
ApplySavedPose(pose_name, blend_factor) ==
    /\ nCalls < MaxCalls
    /\ nCalls' = nCalls + 1
    /\ BracketOfSceneWrites
    /\ UNCHANGED <<last_key_time, keyframes>>
    /\ UNCHANGED <<sceneNodes, selection, objectSet, driverControls, undoState,
                   tolerance, saved_poses, files, imported, captured>>
    /\ IF pose_name \notin DOMAIN saved_poses
       THEN /\ last' = Call("apply_saved_pose", pose_name, blend_factor, "PoseDataError", {})
            /\ UNCHANGED <<attrValue, undoQueue>>
       ELSE LET pose == saved_poses[pose_name]
                written == WrittenItems(pose, sceneNodes, blend_factor)
            IN  IF written = {}
                THEN \* applied_count == 0: PoseDataError leaves through the bracket
                     \E emptyQueued \in BOOLEAN :
                        /\ attrValue' = RollbackValues(undoQueue, attrValue, undoState, emptyQueued)
                        /\ undoQueue' = RollbackQueue(undoQueue, undoState, emptyQueued)
                        /\ last' = Call("apply_saved_pose", pose_name, blend_factor,
                                        "PoseDataError", {})
                ELSE /\ attrValue' = AppliedValues(pose, sceneNodes, attrValue, blend_factor)
                     /\ undoQueue' = CloseChunk(undoQueue, ChunkEntry(attrValue, written),
                                                undoState, TRUE)
                     /\ last' = Call("apply_saved_pose", pose_name, blend_factor, "None", written)
    \* history: whether this call repeats the call before it, which returned True
    /\ again' = (/\ last.op = "apply_saved_pose" /\ last.raised = "None"
                 /\ last.name = pose_name /\ last.arg = blend_factor)

\* a variant of the loop of reset_all_attributes: _is_valid_attribute is not consulted
ResetPlugsAllKeyable(controls) ==
    {p \in AllPlugs : p[1] \in controls}

\* reset_all_attributes: the plugs the loop sets to 0
ResetPlugs(controls) ==
    {p \in AllPlugs : p[1] \in controls /\ IsValidAttribute(p)}

\* reset_all_attributes, the loop: pm.cutKey raises for the controls of cutFailed (the
\* outer except takes it and the control's attributes are skipped), attr.set(0) raises
\* for the plugs of failing (the inner except takes it); each appends one entry to
\* reset_errors, and the operation raises when the entries are as many as the controls
ResetOutcome(controls, failing, cutFailed) ==
    LET plugs == ResetPlugs(controls \ cutFailed)
        reset_errors == Cardinality(cutFailed) + Cardinality(plugs \cap failing)
    IN  [controls |-> controls,
         written |-> plugs \ failing,
         failed |-> plugs \cap failing,
         cut |-> cutFailed,
         raised |-> IF reset_errors # 0 /\ reset_errors = Cardinality(controls)
                    THEN "InvalidAttributeError" ELSE "None"]

\* FacialPoseAnimator.reset_all_attributes, in a host where pm.cutKey raises for the
\* controls of cutFailed and attr.set(0) for the plugs of failing
ResetAllAttributes(mode, failing, cutFailed) ==
    LET found == GetFacialControls(mode, "None", FALSE, sceneNodes, selection,
                                   objectSet, driverControls)
    IN  /\ nCalls < MaxCalls
        /\ again' = FALSE
        /\ nCalls' = nCalls + 1
        /\ BracketOfSceneWrites
        /\ UNCHANGED <<sceneNodes, selection, objectSet, driverControls, undoState,
                       tolerance, saved_poses, files, imported, captured>>
        /\ last_key_time' = last_key_time
        /\ IF found.raised # "None"
           THEN \E emptyQueued \in BOOLEAN :
                   /\ attrValue' = RollbackValues(undoQueue, attrValue, undoState, emptyQueued)
                   /\ undoQueue' = RollbackQueue(undoQueue, undoState, emptyQueued)
                   /\ keyframes' = keyframes
                   /\ last' = Call("reset_all_attributes", <<>>, mode, found.raised, {})
           ELSE \E emptyQueued \in BOOLEAN :
                   LET outcome == ResetOutcome(found.controls, failing,
                                               cutFailed \cap found.controls)
                       values == [p \in DOMAIN attrValue |->
                                    IF p \in outcome.written THEN 0 ELSE attrValue[p]]
                       \* a pm.cutKey that went through is a command of the chunk
                       queued == outcome.cut # found.controls \/ emptyQueued
                       closed == CloseChunk(undoQueue, ChunkEntry(attrValue, outcome.written),
                                            undoState, queued)
                       \* pm.cutKey(control)
                       cut == {k \in keyframes : k[1][1] \notin found.controls \ outcome.cut}
                   IN  /\ outcome.cut # found.controls => emptyQueued
                       /\ last' = Call("reset_all_attributes", <<>>, mode, outcome.raised,
                                       outcome)
                       /\ IF outcome.raised = "None"
                          THEN attrValue' = values /\ undoQueue' = closed /\ keyframes' = cut
                          \* the except branch of undo_chunk_context: closeChunk, then
                          \* pm.undo() when the host's undo is on
                          ELSE IF undoState
                               THEN /\ attrValue' = UndoValues(closed, values)
                                    /\ undoQueue' = UndoQueue(closed)
                                    /\ keyframes' = keyframes
                               ELSE attrValue' = values /\ undoQueue' = closed
                                    /\ keyframes' = cut

(***************************************************************************)
(* Pose files                                                              *)
(***************************************************************************)
ExportPath == <<"poses.json">>
ForeignPath == <<"foreign.json">>

\* a file that exists and that open() cannot read: open raises PermissionError
Unreadable == [error |-> "PermissionError"]

\* import_poses_from_file and load_single_pose_from_file, the except clauses, for an
\* exception of the package raised inside the try: it is no OSError and no ValueError,
\* `except Exception` takes it and raises PoseDataError
ImportWraps(error) == "PoseDataError"

\* a variant of the loop of import_poses_from_file: overwrite_existing is not consulted
ImportedNamesAlways(doc, poses, overwrite_existing) ==
    {n \in DOMAIN doc.poses :
        /\ FromDict(doc.poses[n]).raised = "None"
        /\ IsValid(FromDict(doc.poses[n]).pose)}

\* import_poses_from_file, the loop: the names stored. FileOperationError and the
\* PoseDataError of a missing 'poses' key are raised inside the try and reach the
\* caller through `except Exception` as PoseDataError.
ImportedNames(doc, poses, overwrite_existing) ==
    {n \in DOMAIN doc.poses :
        /\ ~(n \in DOMAIN poses /\ ~overwrite_existing)
        /\ FromDict(doc.poses[n]).raised = "None"
        /\ IsValid(FromDict(doc.poses[n]).pose)}

\* import_poses_from_file: [raised, poses, names]
ImportOutcome(fs, file_path, poses, overwrite_existing) ==
    IF file_path \notin DOMAIN fs
    THEN [raised |-> ImportWraps("FileOperationError"), poses |-> poses, names |-> {}]
    ELSE IF "error" \in DOMAIN fs[file_path]
         THEN [raised |-> "FileOperationError", poses |-> poses, names |-> {}]
    ELSE IF "poses" \notin DOMAIN fs[file_path]
         THEN [raised |-> "PoseDataError", poses |-> poses, names |-> {}]
    ELSE LET names == ImportedNames(fs[file_path], poses, overwrite_existing)
         IN  IF names = {} THEN [raised |-> "PoseDataError", poses |-> poses, names |-> {}]
             ELSE [raised |-> "None", names |-> names,
                   poses |-> [n \in DOMAIN poses \cup names |->
                                IF n \in names THEN FromDict(fs[file_path].poses[n]).pose
                                ELSE poses[n]]]

\* FacialPoseAnimator.import_poses_from_file
ImportPosesFromFile(file_path, overwrite_existing) ==
    LET outcome == ImportOutcome(files, file_path, saved_poses, overwrite_existing)
    IN  /\ nCalls < MaxCalls
        /\ again' = FALSE
        /\ nCalls' = nCalls + 1
        /\ UNCHANGED ledgerVars
        /\ saved_poses' = outcome.poses
        /\ captured' = MapDel(captured, outcome.names)
        /\ last' = Call("import_poses_from_file", file_path, overwrite_existing,
                        outcome.raised, outcome.names)
        /\ UNCHANGED <<hostVars, tolerance, files, imported>>

\* pose_dict.get('name', 'Imported_Pose')
ImportedPoseName == <<"Imported_Pose">>

\* load_single_pose_from_file: [raised, poses, names]
LoadSingleOutcome(fs, file_path, poses, overwrite_existing) ==
    LET unchanged(error) == [raised |-> error, poses |-> poses, names |-> {}]
    IN  IF file_path \notin DOMAIN fs THEN unchanged(ImportWraps("FileOperationError"))
        ELSE IF "error" \in DOMAIN fs[file_path] THEN unchanged("FileOperationError")
        ELSE IF /\ {"pose", "export_type"} \subseteq DOMAIN fs[file_path]
                /\ fs[file_path].export_type = "single_pose"
        THEN LET pose_dict == fs[file_path].pose
                 pose_name == DictGetOr(pose_dict, "name", ImportedPoseName)
                 pose_data == FromDict(pose_dict)
             IN  IF pose_name \in DOMAIN poses /\ ~overwrite_existing THEN unchanged("None")
                 ELSE IF pose_data.raised # "None" THEN unchanged("PoseDataError")
                 ELSE IF ~IsValid(pose_data.pose) THEN unchanged(ImportWraps("PoseDataError"))
                 ELSE [raised |-> "None", names |-> {pose_name},
                       poses |-> MapSet(poses, pose_name, pose_data.pose)]
        ELSE LET outcome == ImportOutcome(fs, file_path, poses, overwrite_existing)
             IN  IF outcome.raised = "None" THEN outcome
                 ELSE unchanged(ImportWraps(outcome.raised))

\* FacialPoseAnimator.load_single_pose_from_file
LoadSinglePoseFromFile(file_path, overwrite_existing) ==
    LET outcome == LoadSingleOutcome(files, file_path, saved_poses, overwrite_existing)
    IN  /\ nCalls < MaxCalls
        /\ again' = FALSE
        /\ nCalls' = nCalls + 1
        /\ UNCHANGED ledgerVars
        /\ saved_poses' = outcome.poses
        /\ captured' = MapDel(captured, outcome.names)
        /\ last' = Call("load_single_pose_from_file", file_path, overwrite_existing,
                        outcome.raised, outcome.names)
        /\ UNCHANGED <<hostVars, tolerance, files, imported>>

\* FacialPoseAnimator.clear_all_saved_poses
ClearAllSavedPoses ==
    /\ nCalls < MaxCalls
    /\ again' = FALSE
    /\ nCalls' = nCalls + 1
    /\ UNCHANGED ledgerVars
    /\ saved_poses' = NoPoses
    /\ captured' = NoPoses
    /\ last' = Call("clear_all_saved_poses", <<>>, {}, "None", DOMAIN saved_poses)
    /\ UNCHANGED <<hostVars, tolerance, files, imported>>

\* FacialPoseAnimator.export_poses_to_file with pose_names=None
ExportPosesToFile(file_path) ==
    /\ nCalls < MaxCalls
    /\ again' = FALSE
    /\ nCalls' = nCalls + 1
    /\ UNCHANGED ledgerVars
    /\ IF DOMAIN saved_poses = {}
       THEN /\ files' = files
            /\ last' = Call("export_poses_to_file", file_path, {}, "PoseDataError", {})
       ELSE /\ files' = MapSet(files, file_path, PosesDocument(saved_poses))
            /\ last' = Call("export_poses_to_file", file_path, {}, "None", DOMAIN saved_poses)
    /\ UNCHANGED <<hostVars, tolerance, saved_poses, imported, captured>>

\* create_facial_animator() and, on the new animator, import_poses_from_file(file_path)
ImportIntoNewAnimator(file_path) ==
    LET outcome == ImportOutcome(files, file_path, NoPoses, FALSE)
    IN  /\ nCalls < MaxCalls
        /\ again' = FALSE
        /\ nCalls' = nCalls + 1
        /\ UNCHANGED ledgerVars
        /\ imported' = outcome.poses
        /\ last' = Call("import_into_new_animator", file_path, FALSE, outcome.raised, outcome.names)
        /\ UNCHANGED <<hostVars, tolerance, saved_poses, files, captured>>

\* FacialPoseAnimator.remove_saved_pose
RemoveSavedPose(pose_name) ==
    /\ nCalls < MaxCalls
    /\ again' = FALSE
    /\ nCalls' = nCalls + 1
    /\ UNCHANGED ledgerVars
    /\ saved_poses' = MapDel(saved_poses, {pose_name})
    /\ captured' = MapDel(captured, {pose_name})
    /\ last' = Call("remove_saved_pose", pose_name, {}, "None", pose_name \in DOMAIN saved_poses)
    /\ UNCHANGED <<hostVars, tolerance, files, imported>>

\* a pose file of another session: it names a control the scene lacks, an attribute
\* face_CTRL lacks, a locked and a connected plug
ForeignName == <<"Z">>
GhostName == <<"7">>
ForeignControls ==
    [c \in {GhostControl, "face_CTRL", "mouth_CTRL"} |->
        CASE c = GhostControl -> [a \in {"translateX"} |-> 500]
          [] c = "face_CTRL" -> [a \in {"translateX", "jawOpen"} |-> 500]
          [] OTHER -> [a \in {"translateX", "smile"} |-> 250]]
ForeignDocument ==
    PosesDocument(
        [n \in {ForeignName, GhostName} |->
            IF n = ForeignName
            THEN FacialPoseData(n, SanitizePoseNameForAttr(n), ForeignControls, "", Now, MayaVersion)
            ELSE FacialPoseData(n, SanitizePoseNameForAttr(n),
                                [c \in {GhostControl} |-> [a \in {"translateX"} |-> 500]],
                                "", Now, MayaVersion)])

(***************************************************************************)
(* Tracked operations: the mutation ledger and the bracket's rollback      *)
(***************************************************************************)
\* a scene item is <<kind, name, k>>; k > 0 is the suffix the host gives a new node
\* whose name is taken
Node(name) == <<"node", name, 0>>
Attr(name) == <<"attr", name, 0>>
Conn(name) == <<"conn", name, 0>>

RootNode == "Root"
DriverItem == Node(facial_driver_node)
\* _generate_pose_name for face_CTRL.translateX at its upper limit
PoseAttrItem == Attr("FacialPoseValue.face_CTRL_translateX_1f0")
CurveItem(k) == <<"node", "face_CTRL_translateX_1f0_driver", k>>
ConnInItem(k) == <<"conn", "face_CTRL.translateX>curve.input", k>>
ConnOutItem(k) == <<"conn", "curve.output>FacialPoseValue.face_CTRL_translateX_1f0", k>>
\* pm.createNode("animCurveUU", name=...): the first name that is free
FreshCurve == CHOOSE k \in 0..MaxCalls : CurveItem(k) \notin sceneItems
                                          /\ \A j \in 0..(k - 1) : CurveItem(j) \in sceneItems
\* _create_metadata_connections for one control: three attributes, three connections
MetadataAttrItems ==
    <<Attr("FacialPoseValue.facialControlNodes"), Attr("FacialPoseValue.controlIndex_0"),
      Attr("face_CTRL.facialDriver_FacialPoseValue")>>
MetadataConnItems ==
    <<Conn("face_CTRL.message>FacialPoseValue.facialControlNodes[0]"),
      Conn("face_CTRL.message>FacialPoseValue.controlIndex_0"),
      Conn("FacialPoseValue.message>face_CTRL.facialDriver_FacialPoseValue")>>
SetItem == Node(SetName)
RootAttrItem == Attr("Root.face_CTRL_translateX")
RootConnItem == Conn("face_CTRL.translateX>Root.face_CTRL_translateX")

Range(s) == {s[i] : i \in 1..Len(s)}
Reverse(s) == [i \in 1..Len(s) |-> s[Len(s) + 1 - i]]

\* list(a_set): the elements in an order the set's hashing decides
Orders(S) == {s \in [1..Cardinality(S) -> S] : Range(s) = S}

\* _track_created_node, _track_created_attribute, _track_created_connection for the
\* items a body step has just created, in the order created
TrackCreated(items) ==
    IF enable_undo_tracking
    THEN /\ created_nodes' = created_nodes \cup {i \in Range(items) : i[1] = "node"}
         /\ created_attributes' = created_attributes \o SelectSeq(items, LAMBDA i : i[1] = "attr")
         /\ created_connections' = created_connections \o SelectSeq(items, LAMBDA i : i[1] = "conn")
    ELSE UNCHANGED <<created_nodes, created_attributes, created_connections>>

\* a body step issues the host commands that make the items (commands of the open chunk)
\* and tracks them; an item that is in the scene already is tracked, not made
Create(items) ==
    /\ sceneItems' = sceneItems \cup Range(items)
    /\ chunk' = chunk \cup (Range(items) \ sceneItems)
    /\ createdLog' = createdLog \o SelectSeq(items, LAMBDA i : i \notin sceneItems)
    /\ TrackCreated(items)

CreateNothing ==
    UNCHANGED <<sceneItems, chunk, createdLog, created_nodes, created_attributes,
                created_connections>>

\* the variables a step of a tracked operation's body leaves alone
BodyFrame ==
    UNCHANGED <<hostVars, tolerance, saved_poses, files, imported, captured, again, nCalls,
                last, enable_undo_tracking, itemQueue, cleanupLog, openChunks, last_key_time, keyframes>>

At(op, pc) == bracket.op = op /\ bracket.pc = pc
Goto(pc) == bracket' = [bracket EXCEPT !.pc = pc]
Raise(error) == bracket' = [bracket EXCEPT !.pc = "raising", !.error = error]

\* FacialPoseAnimator.set_undo_tracking
SetUndoTracking(enabled) ==
    /\ bracket = Idle
    /\ nCalls < MaxCalls
    /\ nCalls' = nCalls + 1
    /\ enable_undo_tracking' = enabled
    /\ IF ~enabled THEN ClearUndoTracking
       ELSE UNCHANGED <<created_nodes, created_connections, created_attributes>>
    /\ last' = Call("set_undo_tracking", <<>>, enabled, "None", {})
    /\ UNCHANGED <<hostVars, tolerance, saved_poses, files, imported, captured, again,
                   sceneItems, itemQueue, chunk, bracket, createdLog, cleanupLog,
                   openChunks, last_key_time, keyframes>>

\* undo_chunk_context up to the yield: clear_undo_tracking, pm.undoInfo(openChunk=True);
\* name is the pose the operation was called for, if it takes one
EnterBracketFor(op, pc, name) ==
    /\ bracket = Idle
    /\ nCalls < MaxCalls
    /\ nCalls' = nCalls + 1
    /\ ClearUndoTracking
    /\ chunk' = {}
    /\ bracket' = [op |-> op, pc |-> pc, error |-> "None", curve |-> 0]
    /\ createdLog' = <<>>
    /\ cleanupLog' = <<>>
    /\ last' = Call(op, name, "none", "running", {})
    /\ openChunks' = openChunks + 1
    /\ UNCHANGED <<last_key_time, keyframes>>
    /\ UNCHANGED <<hostVars, tolerance, saved_poses, files, imported, captured, again,
                   enable_undo_tracking, sceneItems, itemQueue>>

EnterBracket(op, pc) == EnterBracketFor(op, pc, <<>>)

\* create_facial_control_set up to the bracket: discovery and the exclusion filter
CreateFacialControlSet(use_current_selection) ==
    LET found == IF use_current_selection THEN GetControlsFromSelection(selection)
                 ELSE GetControlsFromPattern(sceneNodes)
        valid_controls == {ctrl \in found.controls : IsValidControl(ctrl)}
    IN  IF found.raised = "None" /\ valid_controls # {}
        THEN EnterBracket("create_facial_control_set", "set_create")
        ELSE /\ bracket = Idle
             /\ nCalls < MaxCalls
             /\ nCalls' = nCalls + 1
             /\ last' = Call("create_facial_control_set", <<>>, "none",
                             IF found.raised # "None" THEN found.raised ELSE "ObjectSetError",
                             {})
             /\ createdLog' = <<>>
             /\ cleanupLog' = <<>>
             /\ UNCHANGED <<hostVars, tolerance, saved_poses, files, imported, captured,
                            again, created_nodes, created_connections, created_attributes,
                            enable_undo_tracking, sceneItems, itemQueue, chunk, bracket,
                            openChunks, last_key_time, keyframes>>

\* create_facial_control_set: pm.sets(name=set_name, empty=True) unless the set exists
SetCreate ==
    /\ At("create_facial_control_set", "set_create")
    /\ IF SetItem \in sceneItems THEN CreateNothing ELSE Create(<<SetItem>>)
    /\ Goto("set_add")
    /\ BodyFrame

\* create_facial_control_set: pm.sets(control_set, add=valid_controls), then return
SetAdd ==
    /\ At("create_facial_control_set", "set_add")
    /\ \E ok \in BOOLEAN : IF ok THEN Goto("returning") ELSE Raise("ObjectSetError")
    /\ CreateNothing
    /\ BodyFrame

\* create_facial_pose_driver: the driver node is created unless it exists
DriverNode ==
    /\ At("create_facial_pose_driver", "driver_node")
    /\ IF DriverItem \in sceneItems
       THEN CreateNothing /\ Goto("driver_controls")
       ELSE \E ok \in BOOLEAN :
               IF ok THEN Create(<<DriverItem>>) /\ Goto("driver_controls")
               ELSE CreateNothing /\ Raise("DriverNodeError")
    /\ BodyFrame

\* create_facial_pose_driver: get_facial_controls
DriverControls(mode) ==
    LET found == GetFacialControls(mode, "None", FALSE, sceneNodes, selection,
                                   objectSet, driverControls)
    IN  /\ At("create_facial_pose_driver", "driver_controls")
        /\ IF found.raised # "None" THEN Raise(found.raised)
           ELSE IF "face_CTRL" \in found.controls THEN Goto("driver_attr")
           ELSE Raise("DriverNodeError")   \* no valid attribute: pose_count == 0
        /\ CreateNothing
        /\ BodyFrame

\* _create_driver_attributes, one step of it: a failing host command is caught, its pose
\* is not counted, and with pose_count == 0 create_facial_pose_driver raises
DriverStep(pc, item, next) ==
    /\ At("create_facial_pose_driver", pc)
    /\ \E ok \in BOOLEAN :
          IF ok THEN Create(<<item>>) /\ Goto(next)
          ELSE CreateNothing /\ Raise("DriverNodeError")
    /\ BodyFrame

\* _create_driver_attributes: the pose attribute, skipped when the driver has it already
DriverAttr ==
    IF PoseAttrItem \in sceneItems
    THEN /\ At("create_facial_pose_driver", "driver_attr")
         /\ CreateNothing
         /\ Raise("DriverNodeError")
         /\ BodyFrame
    ELSE DriverStep("driver_attr", PoseAttrItem, "driver_curve")

\* _create_driver_attributes: the animation curve node
DriverCurve ==
    /\ At("create_facial_pose_driver", "driver_curve")
    /\ \E ok \in BOOLEAN :
          IF ok THEN /\ Create(<<CurveItem(FreshCurve)>>)
                     /\ bracket' = [bracket EXCEPT !.pc = "driver_conn_in", !.curve = FreshCurve]
          ELSE CreateNothing /\ Raise("DriverNodeError")
    /\ BodyFrame

\* _create_driver_attributes: the two connections through the curve
DriverConnIn == DriverStep("driver_conn_in", ConnInItem(bracket.curve), "driver_conn_out")
DriverConnOut == DriverStep("driver_conn_out", ConnOutItem(bracket.curve), "driver_metadata")

\* create_facial_pose_driver with pose_count > 0: _create_metadata_connections, then return
DriverMetadata ==
    /\ At("create_facial_pose_driver", "driver_metadata")
    /\ Create(SelectSeq(MetadataAttrItems \o MetadataConnItems, LAMBDA i : i \notin sceneItems))
    /\ Goto("returning")
    /\ BodyFrame

\* connect_attributes_to_root: pm.PyNode(root_node_name)
RootLookup ==
    /\ At("connect_attributes_to_root", "root_node")
    /\ IF RootNode \in sceneNodes THEN Goto("root_controls") ELSE Raise("ControlSelectionError")
    /\ CreateNothing
    /\ BodyFrame

\* connect_attributes_to_root: get_facial_controls
RootControls(mode) ==
    LET found == GetFacialControls(mode, "None", FALSE, sceneNodes, selection,
                                   objectSet, driverControls)
    IN  /\ At("connect_attributes_to_root", "root_controls")
        /\ IF found.raised # "None" THEN Raise(found.raised)
           ELSE IF "face_CTRL" \in found.controls THEN Goto("root_attr")
           ELSE Raise("ControlSelectionError")   \* connection_count == 0
        /\ CreateNothing
        /\ BodyFrame

\* connect_attributes_to_root: the attribute on the root, added unless it exists
RootAttr ==
    /\ At("connect_attributes_to_root", "root_attr")
    /\ IF RootAttrItem \in sceneItems THEN CreateNothing ELSE Create(<<RootAttrItem>>)
    /\ Goto("root_conn")
    /\ BodyFrame

\* connect_attributes_to_root: the connection; with none made the operation raises
RootConn ==
    /\ At("connect_attributes_to_root", "root_conn")
    /\ \E ok \in BOOLEAN :
          IF ok THEN Create(<<RootConnItem>>) /\ Goto("returning")
          ELSE CreateNothing /\ Raise("ControlSelectionError")
    /\ BodyFrame

\* FacialPoseData.sanitize_attribute_name: re.sub(r'[^a-zA-Z0-9_]', '_', ...), then '_'
\* before a first character that is no letter and no underscore
SanitizeAttributeName(attribute_name) ==
    LET sanitized == ReplaceNonWord(attribute_name)
    IN  IF sanitized = <<>> THEN <<"p", "o", "s", "e", "_", "a", "t", "t", "r">>
        ELSE IF ~IsAlpha(sanitized[1]) /\ sanitized[1] # "_" THEN <<"_">> \o sanitized
        ELSE sanitized

\* the characters of an attribute name, and a name as the number its characters spell:
\* two names are the same attribute of the driver exactly if the numbers are equal
WordChars == <<"_", "7", "Z", "a", "c", "e", "m", "o", "p", "r", "s", "t", "u">>
CharCode(c) == CHOOSE i \in 1..Len(WordChars) : WordChars[i] = c
RECURSIVE NameCode(_)
NameCode(attr_name) ==
    IF attr_name = <<>> THEN 0
    ELSE NameCode(SubSeq(attr_name, 1, Len(attr_name) - 1)) * (Len(WordChars) + 1)
             + CharCode(attr_name[Len(attr_name)])

\* the attribute of the driver node that create_pose_driver_attribute makes for a record
PoseDriverAttrItem(pose) ==
    <<"attr", "FacialPoseValue.<pose attribute>", NameCode(SanitizeAttributeName(pose.attribute_name))>>

\* create_pose_driver_attribute, the except clauses, for the DriverNodeError raised in
\* the try: it is no pm.MayaNodeError, `except Exception` takes it and raises PoseDataError
DriverAttrWraps(error) == "PoseDataError"

\* create_pose_driver_attribute up to the bracket: the pose and the driver node are
\* looked up
CreatePoseDriverAttribute(pose_name) ==
    IF pose_name \in DOMAIN saved_poses /\ DriverItem \in sceneItems
    THEN EnterBracketFor("create_pose_driver_attribute", "pose_attr", pose_name)
    ELSE /\ bracket = Idle
         /\ nCalls < MaxCalls
         /\ nCalls' = nCalls + 1
         /\ last' = Call("create_pose_driver_attribute", pose_name, "none",
                         IF pose_name \notin DOMAIN saved_poses THEN "PoseDataError"
                         ELSE DriverAttrWraps("DriverNodeError"),
                         {})
         /\ createdLog' = <<>>
         /\ cleanupLog' = <<>>
         /\ UNCHANGED <<hostVars, tolerance, saved_poses, files, imported, captured,
                        again, created_nodes, created_connections, created_attributes,
                        enable_undo_tracking, sceneItems, itemQueue, chunk, bracket,
                        openChunks, last_key_time, keyframes>>

\* create_pose_driver_attribute inside the bracket: return False when the driver has the
\* attribute, else pm.addAttr and _track_created_attribute, return True
PoseAttrBody ==
    /\ At("create_pose_driver_attribute", "pose_attr")
    /\ IF PoseDriverAttrItem(saved_poses[last.name]) \in sceneItems
       THEN CreateNothing /\ Goto("returning")
       ELSE \E ok \in BOOLEAN :
               IF ok THEN Create(<<PoseDriverAttrItem(saved_poses[last.name])>>)
                          /\ Goto("returning")
               ELSE CreateNothing /\ Raise("RuntimeError")
    /\ BodyFrame

\* an entry of the undo queue for scene items: what its commands made and deleted
ItemEntry(made, deleted) == [made |-> made, deleted |-> deleted]

\* pm.undoInfo(closeChunk=True) for the items of the open chunk
CloseItemChunk(queue, made, enabled, emptyQueued) ==
    IF ~enabled THEN queue
    ELSE IF made = {} /\ ~emptyQueued THEN queue
    ELSE Push(queue, ItemEntry(made, {}))

\* pm.disconnectAttr, pm.deleteAttr, pm.delete outside a chunk: one queue entry each
RECURSIVE PushDeletions(_, _)
PushDeletions(queue, removed) ==
    IF removed = <<>> THEN queue
    ELSE PushDeletions(Push(queue, ItemEntry({}, {Head(removed)})), Tail(removed))

\* _cleanup_created_items: the order in which the ledger is walked; nodeOrder is
\* list(self.created_nodes)
CleanupOrder(connections, attributes, nodeOrder) ==
    Reverse(connections) \o Reverse(attributes) \o Reverse(nodeOrder)

\* _cleanup_created_items: the items removed, in order. An item is removed if it is
\* there; the host command that removes the item `stuck` raises, which is caught.
CleanupRemoved(tracking, connections, attributes, nodeOrder, items, stuck) ==
    IF ~tracking THEN <<>>
    ELSE SelectSeq(CleanupOrder(connections, attributes, nodeOrder),
                   LAMBDA i : i \in items /\ i \notin stuck)

\* pm.undo() on the items: the newest entry is reverted
UndoItems(queue, items) ==
    IF queue = <<>> THEN items
    ELSE (items \ queue[Len(queue)].made) \cup queue[Len(queue)].deleted

\* a variant of the bracket's except branch: an error of the rollback replaces the body's
PropagatedLastError(body_error, cleanup_error) ==
    IF cleanup_error # "None" THEN cleanup_error ELSE body_error

\* undo_chunk_context, `raise e`: the exception that leaves the bracket
Propagated(body_error, cleanup_error) ==
    body_error

\* a variant of the except branch: the chunk is left open
ChunksAfterExceptLeftOpen(open, closeFails) ==
    open

\* undo_chunk_context, the except branch: pm.undoInfo(closeChunk=True), once; a host
\* command that raises has done nothing
ChunksAfterExcept(open, closeFails) ==
    IF closeFails THEN open ELSE open - 1

\* undo_chunk_context after the yield, the body having returned (at its end or from
\* inside): closeChunk, then the finally clause
ExitReturn ==
    /\ bracket.pc = "returning"
    /\ \E emptyQueued \in BOOLEAN :
          itemQueue' = CloseItemChunk(itemQueue, chunk, undoState, emptyQueued)
    /\ openChunks' = openChunks - 1
    /\ UNCHANGED <<last_key_time, keyframes>>
    /\ ClearUndoTracking
    /\ chunk' = {}
    /\ bracket' = Idle
    /\ last' = Call(bracket.op, last.name, "none", "None", Range(createdLog) \cap sceneItems)
    /\ UNCHANGED <<hostVars, tolerance, saved_poses, files, imported, captured, again, nCalls,
                   enable_undo_tracking, sceneItems, createdLog, cleanupLog>>

\* the ledger's items, as _cleanup_created_items meets them
Tracked == created_nodes \cup Range(created_connections) \cup Range(created_attributes)

\* undo_chunk_context, the except branch and the finally clause, the body having raised:
\* closeChunk, _cleanup_created_items, pm.undo() when the host's undo is on, raise e.
\* hostFails names the host command that raises, if one does: closeChunk or undo (caught
\* by the branch), or the removal of one item (caught by the cleanup, which goes on).
ExitRaise ==
    /\ bracket.pc = "raising"
    /\ \E hostFails \in {"none", "closeChunk", "cleanup", "undo"},
          nodeOrder \in Orders(created_nodes), emptyQueued \in BOOLEAN :
       \E stuck \in (IF hostFails = "cleanup"
                     THEN {{i} : i \in IF enable_undo_tracking THEN Tracked \cap sceneItems
                                       ELSE {}}
                     ELSE {{}}) :
          LET closed == IF hostFails = "closeChunk" THEN itemQueue
                        ELSE CloseItemChunk(itemQueue, chunk, undoState, emptyQueued)
              removed == IF hostFails = "closeChunk" THEN <<>>
                         ELSE CleanupRemoved(enable_undo_tracking, created_connections,
                                             created_attributes, nodeOrder, sceneItems, stuck)
              cleaned == sceneItems \ Range(removed)
              queued == IF undoState THEN PushDeletions(closed, removed) ELSE closed
              undoRuns == hostFails \in {"none", "cleanup"} /\ undoState
          IN  /\ sceneItems' = IF undoRuns THEN UndoItems(queued, cleaned) ELSE cleaned
              /\ itemQueue' = IF undoRuns THEN UndoQueue(queued) ELSE queued
              /\ cleanupLog' = removed
              /\ openChunks' = ChunksAfterExcept(openChunks, hostFails = "closeChunk")
              /\ last' = Call(bracket.op, last.name, hostFails,
                              Propagated(bracket.error,
                                         IF hostFails \in {"closeChunk", "undo"}
                                         THEN "RuntimeError" ELSE "None"),
                              Range(createdLog) \cap sceneItems')
    /\ ClearUndoTracking
    /\ chunk' = {}
    /\ bracket' = Idle
    /\ UNCHANGED <<hostVars, tolerance, saved_poses, files, imported, captured, again, nCalls,
                   enable_undo_tracking, createdLog, last_key_time, keyframes>>

(***************************************************************************)
(* Spec: a session of capture, apply and reset on a rig                    *)
(***************************************************************************)
SmileName == <<"a">>
SessionSelections == {{"face_CTRL"}, AllNodes}
EditablePlugs == {<<"face_CTRL", "translateX">>, <<"face_CTRL", "translateY">>}
HostValues == {-500, 9, 10}
Tolerances == {DefaultTolerance, 500}
BlendFactors == {0, 500, 1000}

InitHost ==
    /\ sceneNodes = AllNodes
    /\ objectSet = NoSet
    /\ driverControls = NoDriver
    /\ attrValue = [p \in AllPlugs |-> RestValue(p)]
    /\ undoQueue = <<>>

InitAnimator ==
    /\ tolerance = DefaultTolerance
    /\ saved_poses = NoPoses
    /\ imported = NoPoses
    /\ captured = NoPoses
    /\ again = FALSE
    /\ nCalls = 0
    /\ created_nodes = {}
    /\ created_connections = <<>>
    /\ created_attributes = <<>>
    /\ enable_undo_tracking = TRUE
    /\ sceneItems = {}
    /\ itemQueue = <<>>
    /\ chunk = {}
    /\ bracket = Idle
    /\ createdLog = <<>>
    /\ cleanupLog = <<>>
    /\ openChunks = 0
    /\ last_key_time = 0
    /\ keyframes = {}

Init ==
    /\ InitHost
    /\ InitAnimator
    /\ selection \in SessionSelections
    /\ undoState \in BOOLEAN
    /\ files = [f \in {ForeignPath} |-> ForeignDocument]
    /\ last = Call("init", <<>>, {}, "None", {})

Next ==
    \/ \E p \in EditablePlugs, v \in HostValues : HostSetAttr(p, v)
    \/ \E t \in Tolerances : SetTolerance(t)
    \/ \E use_current_selection \in BOOLEAN :
          SavePoseFromSelection(SmileName, "", use_current_selection, FALSE)
    \/ \E n \in {SmileName, ForeignName, GhostName}, b \in BlendFactors : ApplySavedPose(n, b)
    \/ \E mode \in {"pattern", "selection"} : ResetAllAttributes(mode, {}, {})
    \/ ImportPosesFromFile(ForeignPath, FALSE)

Spec == Init /\ [][Next]_vars

(***************************************************************************)
(* SpecSanitize: _sanitize_pose_name_for_attr on every name up to MaxNameLen *)
(***************************************************************************)
InitRest ==
    /\ InitHost
    /\ InitAnimator
    /\ selection = {}
    /\ undoState = TRUE
    /\ files = NoPoses

InitSanitize ==
    /\ InitRest
    /\ \E n \in NameInputs : last = Call("pose_name", n, {}, "None", <<>>)

SanitizeName ==
    /\ last.op = "pose_name"
    /\ last' = Call("_sanitize_pose_name_for_attr", last.name, {}, "None",
                    SanitizePoseNameForAttr(last.name))
    /\ nCalls' = nCalls + 1
    /\ UNCHANGED ledgerVars
    /\ UNCHANGED <<hostVars, tolerance, saved_poses, files, imported, captured, again>>

NextSanitize == SanitizeName

SpecSanitize == InitSanitize /\ [][NextSanitize]_vars

(***************************************************************************)
(* SpecControls: get_facial_controls on every small scene                  *)
(***************************************************************************)
ControlsUniverse == {"face_CTRL", "GUI_CTRL", "lambert1"}

InitControls ==
    /\ sceneNodes \in SUBSET ControlsUniverse
    /\ selection \in SUBSET sceneNodes
    /\ objectSet \in {NoSet} \cup SUBSET sceneNodes
    /\ driverControls \in {NoDriver} \cup SUBSET sceneNodes
    /\ attrValue = [p \in AllPlugs |-> RestValue(p)]
    /\ undoQueue = <<>>
    /\ undoState = TRUE
    /\ InitAnimator
    /\ files = NoPoses
    /\ last = Call("scene", <<>>, {}, "None", {})

GetFacialControlsCall(mode, object_set_name, use_selection) ==
    LET found == GetFacialControls(mode, object_set_name, use_selection, sceneNodes,
                                   selection, objectSet, driverControls)
    IN  /\ last.op = "scene"
        /\ last' = Call("get_facial_controls", <<>>,
                        [mode |-> mode, object_set_name |-> object_set_name,
                         use_selection |-> use_selection],
                        found.raised, found.controls)
        /\ nCalls' = nCalls + 1
        /\ UNCHANGED ledgerVars
        /\ UNCHANGED <<hostVars, tolerance, saved_poses, files, imported, captured, again>>

NextControls ==
    \E mode \in Modes \cup {"None"}, object_set_name \in {"None", SetName},
       use_selection \in BOOLEAN :
        GetFacialControlsCall(mode, object_set_name, use_selection)

SpecControls == InitControls /\ [][NextControls]_vars

(***************************************************************************)
(* SpecFiles: capture, export and import of the pose collection            *)
(***************************************************************************)
FileNames == {<<>>, <<"a">>, <<"a", "!">>}
Descriptions == {"", "smile"}

InitFiles ==
    /\ InitHost
    /\ InitAnimator
    /\ selection = {"face_CTRL"}
    /\ undoState = TRUE
    /\ files = NoPoses
    /\ last = Call("init", <<>>, {}, "None", {})

NextFiles ==
    \/ \E v \in HostValues : HostSetAttr(<<"face_CTRL", "translateX">>, v)
    \/ \E n \in FileNames, d \in Descriptions, auto_save_to_file \in BOOLEAN :
          SavePoseFromSelection(n, d, TRUE, auto_save_to_file)
    \/ \E n \in FileNames : RemoveSavedPose(n)
    \/ ExportPosesToFile(ExportPath)
    \/ ImportIntoNewAnimator(ExportPath)

SpecFiles == InitFiles /\ [][NextFiles]_vars

(***************************************************************************)
(* SpecCollection: the pose collection under capture, import, load, remove *)
(* and clear, with the files another version of the tool has written       *)
(***************************************************************************)
ExtraName == <<"x">>
SparseName == <<"s">>
FileControls == [c \in {"face_CTRL"} |-> [a \in {"translateX"} |-> 500]]

\* a record with a key this version does not know
ExtraDict ==
    ToDict(FacialPoseData(ExtraName, SanitizePoseNameForAttr(ExtraName), FileControls,
                          "", Now, MayaVersion)) \cup {<<"author", "rigger">>}

\* a record without description, timestamp and maya_version
SparseDict ==
    {<<"name", SparseName>>, <<"attribute_name", SanitizePoseNameForAttr(SparseName)>>,
     <<"controls", FileControls>>}

\* a key of the file's "poses" object that is not the name its record carries
RenamedKey == <<"k">>

CollectionPath == <<"collection.json">>
SingleExtraPath == <<"extra.json">>
SingleSparsePath == <<"sparse.json">>
MissingPath == <<"missing.json">>
LockedPath == <<"locked.json">>
LoadPaths == {CollectionPath, SingleExtraPath, SingleSparsePath, MissingPath, LockedPath}

FilesOnDisk ==
    [f \in LoadPaths \ {MissingPath} |->
        CASE f = CollectionPath ->
                [version |-> "1.0",
                 poses |-> [n \in {ExtraName, SparseName, RenamedKey} |->
                              IF n = ExtraName THEN ExtraDict ELSE SparseDict]]
          [] f = SingleExtraPath ->
                [version |-> "1.0", export_type |-> "single_pose", pose |-> ExtraDict]
          [] f = SingleSparsePath ->
                [version |-> "1.0", export_type |-> "single_pose", pose |-> SparseDict]
          [] OTHER -> Unreadable]

\* FacialPoseCreatorUI.save_pose. The module imports safe_save_pose from
\* facial_pose_animator, which does not define it: the import raises ImportError, the
\* window runs without an animator and save_pose returns after its warning.
UISavePose(pose_name, from_selection, include_zeros) ==
    /\ nCalls < MaxCalls
    /\ again' = FALSE
    /\ nCalls' = nCalls + 1
    /\ last' = Call("ui_save_pose", pose_name, include_zeros, "Animator not initialized", {})
    /\ UNCHANGED ledgerVars
    /\ UNCHANGED <<hostVars, tolerance, saved_poses, files, imported, captured>>

InitCollection ==
    /\ InitHost
    /\ InitAnimator
    /\ selection = {"face_CTRL"}
    /\ undoState = TRUE
    /\ files = FilesOnDisk
    /\ last = Call("init", <<>>, {}, "None", {})

NextCollection ==
    \/ \E v \in HostValues : HostSetAttr(<<"face_CTRL", "translateX">>, v)
    \/ \E n \in {<<>>, SmileName, SparseName} : SavePoseFromSelection(n, "", TRUE, FALSE)
    \/ \E include_zeros \in BOOLEAN : UISavePose(SmileName, TRUE, include_zeros)
    \/ \E f \in LoadPaths, overwrite_existing \in BOOLEAN :
          ImportPosesFromFile(f, overwrite_existing)
    \/ \E f \in LoadPaths, overwrite_existing \in BOOLEAN :
          LoadSinglePoseFromFile(f, overwrite_existing)
    \/ \E n \in {SmileName, SparseName} : RemoveSavedPose(n)
    \/ ClearAllSavedPoses

SpecCollection == InitCollection /\ [][NextCollection]_vars

(***************************************************************************)
(* SpecLedger: the operations that create scene items, step by step        *)
(***************************************************************************)
LedgerScenes == {{"face_CTRL", RootNode}, {"GUI_CTRL"}}

InitLedger ==
    /\ InitHost
    /\ InitAnimator
    /\ selection = {}
    /\ undoState \in BOOLEAN
    /\ files = NoPoses
    /\ last = Call("init", <<>>, {}, "None", {})

\* the scene is opened (File > Open): another rig
OpenScene(nodes) ==
    /\ bracket = Idle
    /\ nCalls = 0
    /\ last.op = "init"
    /\ sceneNodes' = nodes
    /\ last' = Call("open_scene", <<>>, {}, "None", {})
    /\ UNCHANGED <<selection, objectSet, driverControls, attrValue, undoState, undoQueue,
                   tolerance, saved_poses, files, imported, captured, again, nCalls,
                   ledgerVars>>

NextLedger ==
    \/ \E nodes \in LedgerScenes : OpenScene(nodes)
    \/ \E enabled \in BOOLEAN : SetUndoTracking(enabled)
    \/ CreateFacialControlSet(FALSE)
    \/ SetCreate
    \/ SetAdd
    \/ EnterBracket("create_facial_pose_driver", "driver_node")
    \/ DriverNode
    \/ DriverControls("None")
    \/ DriverAttr
    \/ DriverCurve
    \/ DriverConnIn
    \/ DriverConnOut
    \/ DriverMetadata
    \/ EnterBracket("connect_attributes_to_root", "root_node")
    \/ RootLookup
    \/ RootControls("None")
    \/ RootAttr
    \/ RootConn
    \/ ExitReturn
    \/ ExitRaise

SpecLedger == InitLedger /\ [][NextLedger]_vars

(***************************************************************************)
(* SpecPoseAttr: driver attributes for captured poses                      *)
(***************************************************************************)
PoseNames == {<<"a">>, <<"a", "!">>, <<"Z">>}

\* the scene is opened: one that was saved after create_facial_pose_driver
OpenDriverScene ==
    /\ bracket = Idle
    /\ nCalls = 0
    /\ last.op = "init"
    /\ sceneItems' = {DriverItem}
    /\ last' = Call("open_scene", <<>>, {}, "None", {})
    /\ UNCHANGED <<hostVars, tolerance, saved_poses, files, imported, captured, again,
                   nCalls, created_nodes, created_connections, created_attributes,
                   enable_undo_tracking, itemQueue, chunk, bracket, createdLog, cleanupLog,
                   openChunks, last_key_time, keyframes>>

InitPoseAttr ==
    /\ InitHost
    /\ InitAnimator
    /\ selection = {"face_CTRL"}
    /\ undoState \in BOOLEAN
    /\ files = NoPoses
    /\ last = Call("init", <<>>, {}, "None", {})

\* a public operation is called between tracked operations, never inside one
Between(A) == bracket = Idle /\ A

NextPoseAttr ==
    \/ OpenDriverScene
    \/ Between(HostSetAttr(<<"face_CTRL", "translateX">>, -500))
    \/ \E n \in PoseNames : Between(SavePoseFromSelection(n, "", TRUE, FALSE))
    \/ \E n \in PoseNames : CreatePoseDriverAttribute(n)
    \/ PoseAttrBody
    \/ ExitReturn
    \/ ExitRaise

SpecPoseAttr == InitPoseAttr /\ [][NextPoseAttr]_vars

(***************************************************************************)
(* animate_facial_poses                                                    *)
(***************************************************************************)
\* pm.transformLimits(control, tx=1, q=1) and its like: [minimum, maximum]
AttributeRange(p) ==
    IF p[2] = "translateX" THEN <<-1000, 1000>> ELSE <<0, 1000>>

\* pm.setKeyframe(attribute, time=t): the key replaces the one the curve has at t
SetKeyframe(keys, p, t, v) ==
    {k \in keys : ~(k[1] = p /\ k[2] = t)} \cup {<<p, t, v>>}

RECURSIVE KeyValues(_, _, _, _)
\* _animate_attribute, the loop: values[i] is keyed at time t + i
KeyValues(keys, p, t, values) ==
    IF values = <<>> THEN keys
    ELSE KeyValues(SetKeyframe(keys, p, t + 1, Head(values)), p, t + 1, Tail(values))

\* a variant of _animate_attribute: the key at zero is set at last_key_time itself
AnimateAttributeNoStepBack(t, keys, values, p, value_range, tol, failStep) ==
    LET kept == SelectSeq(value_range, LAMBDA v : ~(Abs(v) < tol))
        zeroed == [values EXCEPT ![p] = 0]
    IN  IF failStep = "zero"
        THEN [t |-> t, keys |-> keys, values |-> values, poses |-> <<>>, error |-> TRUE]
        ELSE IF failStep = "value" /\ kept # <<>>
        THEN [t |-> t + 1, keys |-> SetKeyframe(keys, p, t, 0), values |-> zeroed,
              poses |-> <<>>, error |-> TRUE]
        ELSE [t |-> t + Len(kept) + 1,
              keys |-> SetKeyframe(KeyValues(SetKeyframe(keys, p, t, 0), p, t, kept),
                                   p, t + Len(kept) + 1, 0),
              values |-> zeroed,
              poses |-> [i \in 1..Len(kept) |-> <<p, kept[i]>>],
              error |-> FALSE]

\* FacialPoseAnimator._animate_attribute for a valid attribute, last_key_time being t:
\* [t, keys, values, poses, error]. failStep names the attribute.set that raises, if one
\* does: the first one ("zero") or the one of the first value that is keyed ("value").
\* A pose is the plug and the value its name is made of.
AnimateAttribute(t, keys, values, p, value_range, tol, failStep) ==
    LET kept == SelectSeq(value_range, LAMBDA v : ~(Abs(v) < tol))
        zeroed == [values EXCEPT ![p] = 0]
    IN  IF failStep = "zero"
        THEN [t |-> t - 1, keys |-> keys, values |-> values, poses |-> <<>>, error |-> TRUE]
        ELSE IF failStep = "value" /\ kept # <<>>
        THEN [t |-> t, keys |-> SetKeyframe(keys, p, t - 1, 0), values |-> zeroed,
              poses |-> <<>>, error |-> TRUE]
        ELSE [t |-> t + Len(kept),
              keys |-> SetKeyframe(KeyValues(SetKeyframe(keys, p, t - 1, 0), p, t - 1, kept),
                                   p, t + Len(kept), 0),
              values |-> zeroed,
              poses |-> [i \in 1..Len(kept) |-> <<p, kept[i]>>],
              error |-> FALSE]

RECURSIVE AnimateLoop(_, _, _, _, _)
\* animate_facial_poses, the loop over the valid attributes of the controls, in the
\* order the host lists them: [t, keys, values, poses, errors]
AnimateLoop(state, plugs, tol, failing, failStep) ==
    IF plugs = <<>> THEN state
    ELSE LET p == Head(plugs)
             done == AnimateAttribute(state.t, state.keys, state.values, p,
                                      AttributeRange(p), tol,
                                      IF p \in failing THEN failStep ELSE "none")
         IN  AnimateLoop([t |-> done.t, keys |-> done.keys, values |-> done.values,
                          poses |-> state.poses \o done.poses,
                          errors |-> state.errors \cup (IF done.error THEN {p} ELSE {})],
                         Tail(plugs), tol, failing, failStep)

\* FacialPoseAnimator.animate_facial_poses without an output file, in a host where
\* attribute.set raises at failStep for the plugs of failing
AnimateFacialPoses(mode, failing, failStep) ==
    LET found == GetFacialControls(mode, "None", FALSE, sceneNodes, selection,
                                   objectSet, driverControls)
    IN  /\ nCalls < MaxCalls
        /\ again' = FALSE
        /\ nCalls' = nCalls + 1
        /\ BracketOfSceneWrites
        /\ UNCHANGED <<sceneNodes, selection, objectSet, driverControls, undoState,
                       tolerance, saved_poses, files, imported, captured>>
        /\ IF found.raised # "None"
           THEN \E emptyQueued \in BOOLEAN :
                   /\ attrValue' = RollbackValues(undoQueue, attrValue, undoState, emptyQueued)
                   /\ undoQueue' = RollbackQueue(undoQueue, undoState, emptyQueued)
                   /\ last_key_time' = 0
                   /\ keyframes' = keyframes
                   /\ last' = Call("animate_facial_poses", <<>>, mode, found.raised, {})
           ELSE \E plugs \in Orders(ResetPlugs(found.controls)), emptyQueued \in BOOLEAN :
                   LET done == AnimateLoop([t |-> 0, keys |-> keyframes, values |-> attrValue,
                                            poses |-> <<>>, errors |-> {}],
                                           plugs, tolerance, failing, failStep)
                       written == {p \in DOMAIN attrValue : done.values[p] # attrValue[p]}
                       queued == done.keys # keyframes \/ written # {} \/ emptyQueued
                       closed == CloseChunk(undoQueue, ChunkEntry(attrValue, written),
                                            undoState, queued)
                   IN  /\ (done.keys # keyframes \/ written # {}) => emptyQueued
                       /\ last_key_time' = done.t
                       /\ IF done.poses # <<>>
                          THEN /\ attrValue' = done.values
                               /\ undoQueue' = closed
                               /\ keyframes' = done.keys
                               /\ last' = Call("animate_facial_poses", <<>>, mode, "None",
                                               [pose_names |-> done.poses,
                                                animation_errors |-> done.errors])
                          \* "No poses were successfully animated" leaves through the
                          \* except branch of undo_chunk_context
                          ELSE /\ last' = Call("animate_facial_poses", <<>>, mode,
                                               "InvalidAttributeError", {})
                               /\ IF undoState
                                  THEN /\ attrValue' = UndoValues(closed, done.values)
                                       /\ undoQueue' = UndoQueue(closed)
                                       /\ keyframes' = keyframes
                                  ELSE /\ attrValue' = done.values
                                       /\ undoQueue' = closed
                                       /\ keyframes' = done.keys

NextAnimate ==
    \/ \E p \in EditablePlugs : HostSetAttr(p, -500)
    \/ \E t \in Tolerances : SetTolerance(t)
    \/ \E failing \in {{}, {<<"face_CTRL", "translateX">>}}, failStep \in {"zero", "value"} :
          AnimateFacialPoses("selection", failing, failStep)
    \/ ResetAllAttributes("selection", {}, {})

SpecAnimate == Init /\ [][NextAnimate]_vars

(***************************************************************************)
(* Resets in a host whose commands can fail                                *)
(***************************************************************************)
NextReset ==
    \/ \E p \in EditablePlugs : HostSetAttr(p, -500)
    \/ \E mode \in {"pattern", "selection"} :
       \E failing \in SUBSET EditablePlugs, cutFailed \in {{}, {"face_CTRL"}} :
          ResetAllAttributes(mode, failing, cutFailed)

SpecReset == Init /\ [][NextReset]_vars

(***************************************************************************)
(* The module-level convenience functions: each call builds its own        *)
(* FacialPoseAnimator() and drops it on return                             *)
(***************************************************************************)
\* FacialPoseAnimator.__init__: self.saved_poses = {}
NewSavedPoses == NoPoses

\* module-level save_pose_from_selection (use_current_selection = TRUE) and
\* save_pose_from_all_controls (FALSE): the pose is captured into the new animator's
\* collection and auto-saved to its file; a FacialAnimatorError gives None
ModuleSavePose(pose_name, use_current_selection) ==
    LET outcome == SavePoseOutcome(pose_name, "", use_current_selection, sceneNodes,
                                   selection, objectSet, driverControls, attrValue,
                                   DefaultTolerance)
    IN  /\ nCalls < MaxCalls
        /\ nCalls' = nCalls + 1
        /\ again' = FALSE
        /\ files' = IF outcome.raised = "None"
                    THEN MapSet(files, PoseFilePath(pose_name), SinglePoseDocument(outcome.pose))
                    ELSE files
        /\ last' = Call("module.save_pose", pose_name, use_current_selection, "None",
                        outcome.raised = "None")
        /\ UNCHANGED ledgerVars
        /\ UNCHANGED <<hostVars, tolerance, saved_poses, imported, captured>>

\* module-level apply_saved_pose: FacialPoseAnimator().apply_saved_pose, False for a
\* FacialAnimatorError
ModuleApplySavedPose(pose_name, blend_factor) ==
    LET poses == NewSavedPoses
        written == IF pose_name \in DOMAIN poses
                   THEN WrittenItems(poses[pose_name], sceneNodes, blend_factor) ELSE {}
    IN  /\ nCalls < MaxCalls
        /\ nCalls' = nCalls + 1
        /\ again' = FALSE
        /\ last' = Call("module.apply_saved_pose", pose_name, blend_factor, "None",
                        written # {})
        /\ IF pose_name \notin DOMAIN poses
           THEN UNCHANGED <<attrValue, undoQueue>>
           ELSE IF written = {}
           THEN \E emptyQueued \in BOOLEAN :
                   /\ attrValue' = RollbackValues(undoQueue, attrValue, undoState, emptyQueued)
                   /\ undoQueue' = RollbackQueue(undoQueue, undoState, emptyQueued)
           ELSE /\ attrValue' = AppliedValues(poses[pose_name], sceneNodes, attrValue,
                                              blend_factor)
                /\ undoQueue' = CloseChunk(undoQueue, ChunkEntry(attrValue, written),
                                           undoState, TRUE)
        /\ UNCHANGED ledgerVars
        /\ UNCHANGED <<sceneNodes, selection, objectSet, driverControls, undoState,
                       tolerance, saved_poses, files, imported, captured>>

\* module-level list_saved_poses: the names FacialPoseAnimator().list_saved_poses() lists
ModuleListSavedPoses ==
    /\ nCalls < MaxCalls
    /\ nCalls' = nCalls + 1
    /\ again' = FALSE
    /\ last' = Call("module.list_saved_poses", <<>>, {}, "None", DOMAIN NewSavedPoses)
    /\ UNCHANGED ledgerVars
    /\ UNCHANGED <<hostVars, tolerance, saved_poses, files, imported, captured>>

NextModule ==
    \/ \E p \in EditablePlugs, v \in HostValues : HostSetAttr(p, v)
    \/ \E use_current_selection \in BOOLEAN : ModuleSavePose(SmileName, use_current_selection)
    \/ \E n \in {SmileName, GhostName} : ModuleApplySavedPose(n, 1000)
    \/ ModuleListSavedPoses

SpecModule == Init /\ [][NextModule]_vars

(***************************************************************************)
(* install.py and uninstall.py: the block of userSetup.py                  *)
(***************************************************************************)
\* a text file is the sequence of its lines as readlines() gives them, each with its
\* terminator; only the last line can lack one
UserSetupPath == <<"userSetup.py">>
MarkerLine == "# Facial Pose Tools - Auto-generated setup\n"
PrintLine == "print(\"Facial Pose Tools: Scripts directory added to path\")\n"
ScriptsDirLine == "scripts_dir = cmds.internalVar(userAppDir=True) + \"scripts\"\n"

\* FacialPoseToolsInstaller.create_userSetup: setup_code
setup_code ==
    <<"\n", MarkerLine, "import sys\n", "import maya.cmds as cmds\n", "\n", ScriptsDirLine,
      "if scripts_dir not in sys.path:\n", "    sys.path.insert(0, scripts_dir)\n", "\n",
      PrintLine>>

\* the lines a user's own userSetup.py is made of
TerminatedLines == {"import os\n", "x = 1\n", "\n", "scripts_dir = 1\n"}
UnterminatedLine == "x = 1"
Terminate(line) == IF line = UnterminatedLine THEN "x = 1\n" ELSE line

\* "Facial Pose Tools" in line
Mentions(line) == line \in {MarkerLine, PrintLine}
\* line.strip() == ""
IsBlank(line) == line = "\n"
\* line.startswith("import"), line.startswith("scripts_dir")
StartsWithImport(line) == line \in {"import sys\n", "import maya.cmds as cmds\n", "import os\n"}
StartsWithScriptsDir(line) == line \in {ScriptsDirLine, "scripts_dir = 1\n"}

\* f.write(text) in mode 'a', for a text of whole lines
AppendLines(lines, text) ==
    IF lines = <<>> THEN text
    ELSE SubSeq(lines, 1, Len(lines) - 1) \o <<Terminate(lines[Len(lines)])>> \o
         (IF lines[Len(lines)] = UnterminatedLine THEN Tail(text) ELSE text)

\* FacialPoseToolsInstaller.create_userSetup
CreateUserSetup ==
    /\ nCalls < MaxCalls
    /\ nCalls' = nCalls + 1
    /\ IF UserSetupPath \in DOMAIN files
       THEN LET existing_content == files[UserSetupPath]
            IN  IF \E i \in DOMAIN existing_content : Mentions(existing_content[i])
                THEN /\ files' = files
                     /\ last' = Call("create_userSetup", <<>>, existing_content, "None",
                                     "configured")
                ELSE /\ files' = MapSet(files, UserSetupPath,
                                        AppendLines(existing_content, <<"\n", "\n">> \o setup_code))
                     /\ last' = Call("create_userSetup", <<>>, existing_content, "None",
                                     "updated")
       ELSE /\ files' = MapSet(files, UserSetupPath, setup_code)
            /\ last' = Call("create_userSetup", <<>>, <<>>, "None", "created")
    /\ UNCHANGED ledgerVars
    /\ UNCHANGED <<hostVars, tolerance, saved_poses, imported, captured, again>>

\* FacialPoseToolsUninstaller.clean_usersetup, the loop: new_lines
RECURSIVE CleanLines(_, _)
CleanLines(lines, skip_block) ==
    IF lines = <<>> THEN <<>>
    ELSE LET line == Head(lines)
         IN  IF Mentions(line) THEN CleanLines(Tail(lines), TRUE)
             ELSE IF skip_block /\ (IsBlank(line) \/ StartsWithImport(line)
                                    \/ StartsWithScriptsDir(line))
             THEN CleanLines(Tail(lines), TRUE)
             ELSE <<line>> \o CleanLines(Tail(lines), FALSE)

\* FacialPoseToolsUninstaller.clean_usersetup
CleanUserSetup ==
    /\ nCalls < MaxCalls
    /\ nCalls' = nCalls + 1
    /\ IF UserSetupPath \notin DOMAIN files
       THEN /\ files' = files
            /\ last' = Call("clean_usersetup", <<>>, <<>>, "None", FALSE)
       ELSE LET lines == files[UserSetupPath]
                new_lines == CleanLines(lines, FALSE)
                removed_lines == Len(lines) - Len(new_lines)
            IN  /\ files' = IF removed_lines > 0 THEN MapSet(files, UserSetupPath, new_lines)
                            ELSE files
                /\ last' = Call("clean_usersetup", <<>>, lines, "None", removed_lines > 0)
    /\ UNCHANGED ledgerVars
    /\ UNCHANGED <<hostVars, tolerance, saved_poses, imported, captured, again>>

RECURSIVE LinesUpTo(_)
LinesUpTo(n) ==
    IF n = 0 THEN {<<>>}
    ELSE LinesUpTo(n - 1) \cup
         {Append(lines, line) : lines \in LinesUpTo(n - 1), line \in TerminatedLines}

\* the userSetup.py files a user has before the tools are installed: none mentions the
\* tools
PriorFiles == LinesUpTo(MaxPriorLines) \cup
              {Append(lines, UnterminatedLine) : lines \in LinesUpTo(MaxPriorLines)}

InitSetup ==
    /\ InitHost
    /\ InitAnimator
    /\ selection = {"face_CTRL"}
    /\ undoState = TRUE
    /\ \/ files = <<>>
       \/ \E prior \in PriorFiles : files = [f \in {UserSetupPath} |-> prior]
    /\ last = Call("init", <<>>, {}, "None", {})

NextSetup ==
    \/ CreateUserSetup
    \/ CleanUserSetup

SpecSetup == InitSetup /\ [][NextSetup]_vars

(***************************************************************************)
(* Claims                                                                  *)
(***************************************************************************)
ApplyStep == nCalls' = nCalls + 1 /\ last'.op = "apply_saved_pose"
ItemIn(pose, p) == p[1] \in DOMAIN pose.controls /\ p[2] \in DOMAIN pose.controls[p[1]]

\* the plugs of the scene that a record names and that are neither locked nor connected
NamedWritable(pose) ==
    {p \in DOMAIN attrValue : p[1] \in sceneNodes /\ ItemIn(pose, p)
                              /\ p \notin Locked /\ p \notin Connected}

\* C1 (as claimed): export_poses_to_file(path) followed by import_poses_from_file(path)
\* into an animator whose collection is empty yields a collection equal to the exported
\* one, for any pose collection.
C1_RoundTrip ==
    [][(/\ last.op = "export_poses_to_file" /\ last.raised = "None"
        /\ nCalls' = nCalls + 1 /\ last'.op = "import_into_new_animator")
       => imported' = saved_poses]_vars

\* the controls a capture call looked at
CaptureControls(use_current_selection, sel) ==
    {c \in (IF use_current_selection THEN sel ELSE sceneNodes) :
        /\ c \in Transforms
        /\ ~\E excluded \in excluded_nodes : NameContains(c, excluded)}

\* the validity filter, written out
PassesFilter(p) ==
    /\ p \notin Locked /\ p \notin Connected /\ p \notin Hidden
    /\ AttrType(p) = "double"
    /\ p[2] \notin excluded_attributes

\* C2: capture records a valid attribute if and only if the absolute value of its
\* current value is at or above the configured tolerance; a recorded attribute is
\* recorded with its current value.
C2_ToleranceBoundary ==
    last.op = "save_pose_from_selection" =>
        \A c \in CaptureControls(last.arg, selection) : \A a \in AttrsOf(c) :
            PassesFilter(<<c, a>>) =>
                /\ (Abs(attrValue[<<c, a>>]) >= tolerance) <=>
                      (last.raised = "None" /\ ItemIn(saved_poses[last.name], <<c, a>>))
                /\ (last.raised = "None" /\ ItemIn(saved_poses[last.name], <<c, a>>)) =>
                      saved_poses[last.name].controls[c][a] = attrValue[<<c, a>>]

\* C2 witness: a capture that stored an attribute exactly at the tolerance and left out
\* a non-zero one below it
C2_Witness ==
    /\ last.op = "save_pose_from_selection" /\ last.raised = "None"
    /\ \E c \in CaptureControls(last.arg, selection) : \E a, b \in AttrsOf(c) :
          /\ PassesFilter(<<c, a>>) /\ PassesFilter(<<c, b>>)
          /\ Abs(attrValue[<<c, a>>]) = tolerance
          /\ ItemIn(saved_poses[last.name], <<c, a>>)
          /\ attrValue[<<c, b>>] # 0 /\ Abs(attrValue[<<c, b>>]) < tolerance
          /\ ~ItemIn(saved_poses[last.name], <<c, b>>)

\* C3: apply_saved_pose with blend factor 1.0 sets every settable attribute of the record
\* exactly to its target value, and with a blend factor strictly between 0 and 1 to
\* current + (target - current) * blend, current being the value before the write.
C3_BlendWrites ==
    [][(ApplyStep /\ last'.name \in DOMAIN saved_poses /\ last'.arg > 0 /\ last'.arg <= 1000) =>
        \A p \in NamedWritable(saved_poses[last'.name]) :
            attrValue'[p] =
                IF last'.arg = 1000 THEN saved_poses[last'.name].controls[p[1]][p[2]]
                ELSE attrValue[p]
                     + ((saved_poses[last'.name].controls[p[1]][p[2]] - attrValue[p]) * last'.arg)
                       \div 1000]_vars

\* C3 witness: a half blend that moved an attribute part of the way to its target
C3_Witness ==
    /\ last.op = "apply_saved_pose" /\ last.raised = "None" /\ last.arg = 500
    /\ \E p \in last.out : attrValue[p] # saved_poses[last.name].controls[p[1]][p[2]]

\* C4 (as claimed): after apply_saved_pose with blend factor 0.0, cleanup and host undo
\* of the bracket included, every attribute of the scene has the value it had before.
C4_BlendZeroChangesNothing ==
    [][(ApplyStep /\ last'.arg = 0) => attrValue' = attrValue]_vars

\* C5 (as claimed): apply_saved_pose with blend factor 0.0 on a pose whose controls and
\* attributes all exist and are neither locked nor connected returns True, raising nothing.
C5_BlendZeroSucceeds ==
    (/\ last.op = "apply_saved_pose" /\ last.arg = 0
     /\ last.name \in DOMAIN saved_poses
     /\ PoseItems(saved_poses[last.name]) = NamedWritable(saved_poses[last.name]))
    => last.raised = "None"

KeptItems(controls, values, tol) ==
    {p \in AllPlugs : p[1] \in controls /\ PassesFilter(p) /\ Abs(values[p]) >= tol}

\* applying a captured record with blend factor 1.0 returned True and every attribute of
\* the record has the value it had at capture
CapturedStateRestored ==
    (/\ last.op = "apply_saved_pose" /\ last.arg = 1000
     /\ last.name \in DOMAIN captured /\ last.name \in DOMAIN saved_poses)
    => /\ last.raised = "None"
       /\ \A p \in PoseItems(saved_poses[last.name]) :
              attrValue[p] = captured[last.name].values[p]

\* C7 (as claimed): capture, then any change of attribute values, then apply with blend
\* factor 1.0 gives every attribute of the record its captured value again, and the record
\* holds exactly the selected controls' attributes whose value was at or above tolerance.
C7_AsClaimed ==
    /\ CapturedStateRestored
    /\ (last.op = "save_pose_from_selection" /\ last.raised = "None") =>
          PoseItems(saved_poses[last.name]) =
              {p \in AllPlugs : /\ p[1] \in CaptureControls(last.arg, selection)
                                /\ attrValue[p] >= tolerance}

\* C7 (amended): capture, then any change of attribute values, then apply with blend
\* factor 1.0 gives every attribute of the record its captured value again, and the record
\* holds exactly the valid attributes (unlocked, unconnected, visible, numeric, not on the
\* attribute denylist) of the controls that pass the exclusion filter whose absolute value
\* was at or above tolerance.
C7_CaptureThenApply ==
    /\ CapturedStateRestored
    /\ (last.op = "save_pose_from_selection" /\ last.raised = "None") =>
          PoseItems(saved_poses[last.name]) =
              KeptItems(CaptureControls(last.arg, selection), attrValue, tolerance)

\* C7 witness: a captured record applied after the scene was changed, with a denylisted
\* attribute at or above tolerance on a captured control that the record does not hold
C7_Witness ==
    /\ last.op = "apply_saved_pose" /\ last.arg = 1000 /\ last.raised = "None"
    /\ last.name \in DOMAIN captured
    /\ undoState /\ undoQueue # <<>>
    /\ \E p \in last.out : undoQueue[Len(undoQueue)][p] # attrValue[p]
    /\ \E p \in PoseItems(saved_poses[last.name]) : captured[last.name].values[p] < 0
    /\ \E p \in AllPlugs :
          /\ p[1] \in DOMAIN saved_poses[last.name].controls
          /\ captured[last.name].values[p] >= captured[last.name].tolerance
          /\ ~ItemIn(saved_poses[last.name], p)

\* C8: _sanitize_pose_name_for_attr returns a non-empty string of ASCII letters, digits
\* and underscores only, with no run of two or more underscores, not beginning with a digit.
C8_SanitizedName ==
    last.op = "_sanitize_pose_name_for_attr" =>
        /\ last.out # <<>>
        /\ \A i \in 1..Len(last.out) : last.out[i] \in AsciiLetters \cup Digits \cup {"_"}
        /\ \A i \in 1..(Len(last.out) - 1) : ~(last.out[i] = "_" /\ last.out[i + 1] = "_")
        /\ last.out[1] \notin Digits

\* C8 witness: a name beginning with a digit and holding a character outside the ASCII
\* word characters, sanitized
C8_Witness ==
    /\ last.op = "_sanitize_pose_name_for_attr"
    /\ Len(last.name) >= 2 /\ last.name[1] \in Digits
    /\ \E i \in 1..Len(last.name) : last.name[i] \notin AsciiLetters \cup Digits \cup {"_"}
    /\ last.out[1] \notin Digits

\* C9 (as claimed): apply_saved_pose writes only attributes named in the record that exist
\* on a control present in the scene and are neither locked nor connected; the other items
\* are skipped without aborting the rest, and no other scene attribute is changed.
C9_WritesOnlySettable ==
    [][(ApplyStep /\ last'.name \in DOMAIN saved_poses) =>
        /\ \A p \in AllPlugs \ NamedWritable(saved_poses[last'.name]) :
               attrValue'[p] = attrValue[p]
        /\ (last'.arg >= 1000) =>
               \A p \in NamedWritable(saved_poses[last'.name]) :
                   attrValue'[p] = saved_poses[last'.name].controls[p[1]][p[2]]]_vars

\* the mode a get_facial_controls call works in
CallMode ==
    IF last.arg.mode # "None" THEN last.arg.mode
    ELSE IF last.arg.use_selection THEN "selection" ELSE "pattern"

\* the named set a call in object-set mode looks for is not in the scene
NamedSetMissing == last.arg.object_set_name = "None" \/ objectSet = NoSet

\* the node a call in metadata mode takes for the driver is not the driver in the scene
DriverMissing == last.arg.object_set_name # "None" \/ driverControls = NoDriver

\* the transforms in the scene that the control pattern matches
PatternMatches == {n \in sceneNodes : n \in Transforms}

\* the controls the selected strategy hands over, {} when it fails
StrategyControls ==
    CASE CallMode = "selection" -> {n \in selection : n \in Transforms}
      [] CallMode = "object_set" ->
            IF NamedSetMissing THEN {} ELSE {n \in objectSet : n \in Transforms}
      [] CallMode = "metadata" ->
            IF DriverMissing THEN {} ELSE {n \in driverControls : n \in Transforms}
      [] OTHER -> PatternMatches

Survivors(controls) ==
    {c \in controls : ~\E excluded \in excluded_nodes : NameContains(c, excluded)}

LedgerEmpty ==
    created_nodes = {} /\ created_connections = <<>> /\ created_attributes = <<>>

\* the bracket has been entered and its body has not taken a step
JustEntered ==
    /\ last.raised = "running"
    /\ bracket.pc \in {"set_create", "driver_node", "root_node"}

\* C12: the ledger (created_nodes, created_connections, created_attributes) is empty at
\* the moment a bracket has been entered and once it has exited, whether its body
\* returned or raised; between public operations it is empty.
C12_LedgerEmptyOutside ==
    (bracket = Idle \/ JustEntered) => LedgerEmpty

\* a bracket whose body tracked items has exited by raising
C12_Witness ==
    /\ bracket = Idle
    /\ enable_undo_tracking
    /\ createdLog # <<>>
    /\ last.op = "create_facial_pose_driver"
    /\ last.raised = "DriverNodeError"

\* a tracked operation has failed and its bracket has finished; no host command of the
\* except branch raised
FailedTracked ==
    /\ bracket = Idle
    /\ last.op \in {"create_facial_control_set", "create_facial_pose_driver",
                    "connect_attributes_to_root"}
    /\ last.raised \notin {"None", "running"}
    /\ createdLog # <<>>

\* C13: when the body of a tracked operation raises, the rollback undoes the tracked
\* items in the reverse of the order in which the operation created them.
C13_ReverseOfCreation ==
    (FailedTracked /\ enable_undo_tracking /\ last.arg = "none")
        => cleanupLog = Reverse(createdLog)

\* C14: when the body of a tracked operation raises, undo_chunk_context raises that same
\* exception to its caller after the rollback attempt, also when the rollback or the
\* host's undo itself fails.
C14_SameException ==
    [][(bracket.pc = "raising" /\ bracket' = Idle) => last'.raised = bracket.error]_vars

\* the body raised DriverNodeError, a host command of the rollback raised, and the
\* caller got DriverNodeError
C14_Witness ==
    /\ FailedTracked
    /\ last.arg \in {"closeChunk", "undo"}
    /\ last.raised = "DriverNodeError"

\* C15: after a tracked operation that creates scene items has failed, none of the
\* nodes, attributes or connections it created remain in the scene once the bracket has
\* run its cleanup and the host's undo.
C15_NothingRemains ==
    (FailedTracked /\ last.arg = "none") => Range(createdLog) \cap sceneItems = {}

\* the names of the records a file of FilesOnDisk holds
RecordsOf(file_path) ==
    CASE file_path = CollectionPath -> {ExtraName, SparseName}
      [] file_path = SingleExtraPath -> {ExtraName}
      [] file_path = SingleSparsePath -> {SparseName}
      [] OTHER -> {}

\* a load of a file in the format the operation reads, replacing what is there
LoadedCompatFile ==
    /\ last.op \in {"import_poses_from_file", "load_single_pose_from_file"}
    /\ last.arg = TRUE
    /\ \/ last.name = CollectionPath
       \/ last.op = "load_single_pose_from_file"
          /\ last.name \in {SingleExtraPath, SingleSparsePath}

\* C16: a record of a file that carries an unknown extra field, or lacks an optional
\* field, is still loaded into the collection by import_poses_from_file and by
\* load_single_pose_from_file, the unknown field ignored, and the load does not fail.
C16_ForwardCompatible ==
    LoadedCompatFile =>
        /\ last.raised = "None"
        /\ \A n \in RecordsOf(last.name) :
              /\ n \in DOMAIN saved_poses
              /\ saved_poses[n].name = n
              /\ saved_poses[n].controls = FileControls

\* C17: after any sequence of capture, import, single-pose load, remove and clear from an
\* empty collection, every record of the collection is valid: a non-empty name, a
\* non-empty identifier, at least one control.
C17_EveryRecordValid ==
    \A n \in DOMAIN saved_poses : IsValid(saved_poses[n])

\* C18: capture offers an "include defaults" option; when it is set, the valid attributes
\* of the captured controls whose absolute value is below the tolerance are recorded too.
C18_IncludeDefaults ==
    (last.op = "ui_save_pose" /\ last.arg = TRUE) =>
        /\ last.name \in DOMAIN saved_poses
        /\ \A c \in CaptureControls(TRUE, selection) : \A a \in AttrsOf(c) :
              PassesFilter(<<c, a>>) =>
                  /\ ItemIn(saved_poses[last.name], <<c, a>>)
                  /\ saved_poses[last.name].controls[c][a] = attrValue[<<c, a>>]

\* no valid attribute of the controls a capture call targets is at or above the tolerance
NothingToCapture(use_current_selection) ==
    /\ CaptureControls(use_current_selection, selection) # {}
    /\ \A c \in CaptureControls(use_current_selection, selection) : \A a \in AttrsOf(c) :
          PassesFilter(<<c, a>>) => Abs(attrValue[<<c, a>>]) < tolerance

\* C19: when no valid attribute of the targeted controls has an absolute value at or
\* above the tolerance, capture raises PoseDataError and the collection is as it was:
\* no entry added, none of the same name replaced.
C19_NothingCaptured ==
    [][(/\ nCalls' = nCalls + 1
        /\ last'.op = "save_pose_from_selection"
        /\ NothingToCapture(last'.arg))
       => (last'.raised = "PoseDataError" /\ saved_poses' = saved_poses)]_vars

\* a capture of nothing, under a name the collection holds already
C19_Witness ==
    /\ last.op = "save_pose_from_selection"
    /\ NothingToCapture(last.arg)
    /\ last.raised = "PoseDataError"
    /\ last.name \in DOMAIN saved_poses

\* C20: import_poses_from_file and load_single_pose_from_file raise FileOperationError
\* when the file does not exist or cannot be read, and leave the collection unchanged.
C20_FileOperationError ==
    [][(/\ nCalls' = nCalls + 1
        /\ last'.op \in {"import_poses_from_file", "load_single_pose_from_file"}
        /\ last'.name \in {MissingPath, LockedPath})
       => (last'.raised = "FileOperationError" /\ saved_poses' = saved_poses)]_vars

\* C21: create_pose_driver_attribute raises DriverNodeError when the facial driver node
\* is not in the scene, and PoseDataError when the pose name is not in the collection.
C21_TypedDriverAttrErrors ==
    [][(nCalls' = nCalls + 1 /\ last'.op = "create_pose_driver_attribute")
       => /\ last'.name \notin DOMAIN saved_poses => last'.raised = "PoseDataError"
          /\ (last'.name \in DOMAIN saved_poses /\ DriverItem \notin sceneItems)
                => last'.raised = "DriverNodeError"]_vars

\* the records a load operation reads from a file, by the key it stores them under
Offered(op, file_path) ==
    IF file_path \notin DOMAIN files \/ "error" \in DOMAIN files[file_path] THEN <<>>
    ELSE IF "poses" \in DOMAIN files[file_path] THEN files[file_path].poses
    ELSE IF op = "load_single_pose_from_file"
         THEN [n \in {DictGetOr(files[file_path].pose, "name", ImportedPoseName)} |->
                  files[file_path].pose]
    ELSE <<>>

\* the keys of the records a load operation accepts
Accepted(op, file_path) ==
    {n \in DOMAIN Offered(op, file_path) :
        /\ FromDict(Offered(op, file_path)[n]).raised = "None"
        /\ IsValid(FromDict(Offered(op, file_path)[n]).pose)}

\* C22: with overwrite_existing=False, import_poses_from_file and
\* load_single_pose_from_file change no record whose name was in the collection; with
\* overwrite_existing=True a same-named record is replaced by the record the operation
\* accepts from the file; in both cases the returned names are exactly the entries
\* added or replaced.
C22_Overwrite ==
    [][(/\ nCalls' = nCalls + 1
        /\ last'.op \in {"import_poses_from_file", "load_single_pose_from_file"})
       => /\ ~last'.arg =>
                \A n \in DOMAIN saved_poses :
                    n \in DOMAIN saved_poses' /\ saved_poses'[n] = saved_poses[n]
          /\ last'.arg =>
                \A n \in Accepted(last'.op, last'.name) \cap DOMAIN saved_poses :
                    saved_poses'[n] = FromDict(Offered(last'.op, last'.name)[n]).pose
          /\ DOMAIN saved_poses \subseteq DOMAIN saved_poses'
          /\ {n \in DOMAIN saved_poses' :
                 n \notin DOMAIN saved_poses \/ saved_poses'[n] # saved_poses[n]}
                \subseteq last'.out
          /\ \A n \in last'.out :
                /\ n \in Accepted(last'.op, last'.name)
                /\ saved_poses'[n] = FromDict(Offered(last'.op, last'.name)[n]).pose
                /\ n \in DOMAIN saved_poses => last'.arg]_vars

\* an import without overwrite of a file that holds a record named like a captured pose:
\* the captured record is still there
C22_Witness ==
    /\ last.op = "import_poses_from_file"
    /\ last.name = CollectionPath
    /\ last.arg = FALSE
    /\ SparseName \in DOMAIN saved_poses
    /\ saved_poses[SparseName].controls # FileControls

ControlFailed(outcome, control) ==
    control \in outcome.cut \/ \E p \in outcome.failed : p[1] = control

\* C25: reset_all_attributes raises InvalidAttributeError if and only if every
\* discovered control failed to reset; otherwise it completes.
C25_RaisesIffAllFailed ==
    (last.op = "reset_all_attributes" /\ last.raised # "ControlSelectionError")
       => (last.raised = "InvalidAttributeError"
              <=> \A control \in last.out.controls : ControlFailed(last.out, control))

\* C24: a pose saved with the module-level save_pose_from_selection or
\* save_pose_from_all_controls is found by the module-level apply_saved_pose called
\* next (it returns True) and by the module-level list_saved_poses called next.
C24_ModuleLevelFinds ==
    [][(last.op = "module.save_pose" /\ last.out /\ nCalls' = nCalls + 1)
       => /\ (last'.op = "module.apply_saved_pose" /\ last'.name = last.name) => last'.out
          /\ last'.op = "module.list_saved_poses" => last.name \in last'.out]_vars

\* C26: for a userSetup.py that does not mention 'Facial Pose Tools' (or none at
\* all), create_userSetup followed by clean_usersetup keeps every prior line and
\* leaves none of the appended lines (the blank lines apart).
C26_InstallThenUninstall ==
    [][(/\ last.op = "create_userSetup" /\ last.out \in {"updated", "created"}
        /\ last'.op = "clean_usersetup")
       => LET prior == last.arg
              result == files'[UserSetupPath]
          IN  /\ Len(result) >= Len(prior)
              /\ \A i \in 1..Len(prior) : result[i] = Terminate(prior[i])
              /\ \A i \in (Len(prior) + 1)..Len(result) : IsBlank(result[i])]_vars

C28_KeysAreNames ==
    \A n \in DOMAIN saved_poses : saved_poses[n].name = n

\* C29: when animate_facial_poses completes and no attribute raised, the pose at index
\* i of the list it returns (counted from 0) is keyed at time i on its attribute, and
\* last_key_time ends equal to the number of poses returned.
C29_PoseIndexIsKeyTime ==
    [][(/\ nCalls' = nCalls + 1
        /\ last'.op = "animate_facial_poses"
        /\ last'.raised = "None"
        /\ last'.out.animation_errors = {})
       => /\ \A i \in 1..Len(last'.out.pose_names) :
                <<last'.out.pose_names[i][1], i - 1, last'.out.pose_names[i][2]>> \in keyframes'
          /\ last_key_time' = Len(last'.out.pose_names)]_vars

\* an animation of two attributes has completed without an error and returned three
\* poses
C29_Witness ==
    /\ last.op = "animate_facial_poses"
    /\ last.raised = "None"
    /\ last.out.animation_errors = {}
    /\ Len(last.out.pose_names) = 3
    /\ {last.out.pose_names[i][1] : i \in 1..3} = EditablePlugs
    /\ last_key_time = 3

\* C30: two poses captured under different names never receive the same driver
\* attribute, so that create_pose_driver_attribute makes a separate attribute for each
\* and never finds the attribute of one pose existing because of another.
C30_DistinctDriverAttributes ==
    \A n, m \in DOMAIN saved_poses :
        n # m => PoseDriverAttrItem(saved_poses[n]) # PoseDriverAttrItem(saved_poses[m])

====
